---- MODULE Spec2Model ----
(***************************************************************************)
(* A model of the dependency-graph orchestration engine of athalang/defacc *)
(* (the IRENE C-to-Rust pipeline):                                         *)
(*   - RustWorkspace            (src/irene/workspace.py)                   *)
(*   - IRENEPipeline            (src/irene/pipeline.py)                    *)
(*   - ProjectGraphBuilder,                                                *)
(*     ProjectGraph.components  (src/irene/dependency_graph.py)            *)
(*   - build_project_graph      (src/guardian/project_scanner.py)          *)
(*                                                                         *)
(* Texts are sequences of character tokens, so that stripping and the      *)
(* newline translation of Python's text-mode file I/O are computed and not *)
(* assumed.  Python's None is the empty tuple and a present value x is the *)
(* one-element tuple <<x>> wherever a field is Optional.                   *)
(***************************************************************************)
EXTENDS Integers, Sequences, FiniteSets, TLC

VARIABLES
    \* ---- IRENEPipeline / translate_project -----------------------------
    max_iterations,     \* self.max_iterations
    workspace_given,    \* translate_project was called with a workspace_path
    components,         \* the list returned by project_graph.components()
    workspace_file,     \* content of the workspace's on-disk file, or NoFile
    pc,                 \* position of the run inside translate_project
    component_pos,      \* position of the for loop over components (1-based)
    iteration,          \* loop variable of _compile_with_refinement
    pending_patch,      \* pending_patch of _compile_with_refinement
    snapshot,           \* snapshot taken before the last apply_patch
    errors,             \* errors of _compile_with_refinement
    compiled,           \* compiled of _compile_with_refinement
    workspace_view,     \* workspace_view of _compile_with_refinement
    results,            \* results of translate_project
    component_summaries, \* component_summaries of translate_project
    \* ---- observation of the external collaborators ---------------------
    calls,              \* per component: how often each collaborator ran
    attempt_log,        \* per component: outcome of every attempt so far
    observed,           \* last values exchanged with the collaborators
    \* ---- ProjectGraphBuilder / ProjectGraph ----------------------------
    declarations,       \* ProjectGraphBuilder.declarations
    edges,              \* ProjectGraphBuilder.edges
    graph,              \* ProjectGraph.graph as built by build()
    scc_components,     \* the list returned by ProjectGraph.components()
    phase,              \* position of the graph construction
    project,            \* what the units of the project may contain
    \* ---- observation of build_project_graph ---------------------------
    sightings,          \* per decl_id: name and location of each record added
    readded,            \* raw edges a later unit added again
    expected,           \* store and edges of the extracted units alone
    skipped,            \* units whose extraction failed
    earlier_components, \* what an earlier call of components() returned
    \* ---- a caller of ProjectGraphBuilder ------------------------------
    units,              \* the TranslationUnitData the caller holds
    added,              \* which of them it has added so far, in order
    \* ---- observation of a caller of RustWorkspace ----------------------
    last_op,            \* the last operation called, its arguments and result
    rollback,           \* how far a snapshot / apply_patch / restore has come
    \* ---- build_project_graph with max_workers > 1 ----------------------
    futures,            \* per compile command: the future submitted for it
    future_pos,         \* position of the loop over the futures (1-based)
    merging,            \* who is inside add_translation_unit, and for what
    \* ---- IRENEPipeline._build_dependency_context -----------------------
    component_dependencies, \* argument: per index, the upstream indices
    component_index,    \* argument: the component the digest is built for
    max_hops,           \* argument
    max_entries,        \* argument
    queue,              \* queue of the breadth-first walk
    seen_components,    \* seen_components of the walk
    seen_decls,         \* seen_decls of the walk
    lines,              \* lines of the digest
    visits,             \* the components the walk has processed, in order
    dependency_context, \* the digest returned
    digest_pc           \* position inside _build_dependency_context

vars == <<max_iterations, workspace_given, components, workspace_file, pc,
          component_pos, iteration, pending_patch, snapshot, errors, compiled,
          workspace_view, results, component_summaries, calls, attempt_log,
          observed,
          declarations, edges, graph, scc_components, phase, project,
          sightings, readded, expected, skipped, earlier_components,
          units, added,
          last_op, rollback, futures, future_pos, merging,
          component_dependencies, component_index, max_hops, max_entries,
          queue, seen_components, seen_decls, lines, visits,
          dependency_context, digest_pc>>

pipelineVars == <<max_iterations, workspace_given, components, workspace_file,
                  pc, component_pos, iteration, pending_patch, snapshot,
                  errors, compiled, workspace_view, results,
                  component_summaries, calls, attempt_log, observed>>

graphVars == <<declarations, edges, graph, scc_components, phase, project,
               sightings, readded, expected, skipped, earlier_components,
                   units, added>>

workspaceVars == <<last_op, rollback>>

parallelVars == <<futures, future_pos, merging>>

digestVars == <<component_dependencies, component_index, max_hops,
                max_entries, queue, seen_components, seen_decls, lines,
                visits, dependency_context, digest_pc>>

(***************************************************************************)
(* Bounds of the model.                                                    *)
(***************************************************************************)
MaxIter == 3            \* largest max_refinement_iterations tried
MaxComponents == 2      \* longest component list handed to the orchestrator
MaxUnitEdges == 2       \* most reference edges found in one translation unit
MaxFileLen == 4         \* longest workspace file append_block still extends
MaxDigestComponents == 4 \* index of the component a digest is built for
MaxAdditions == 3       \* most calls of add_translation_unit by one caller

(***************************************************************************)
(* Texts.                                                                  *)
(***************************************************************************)
Whitespace == {" ", "CR", "LF", "TAB"}

NoFile == <<"ENOENT">>
None == <<>>
Some(x) == <<x>>

RECURSIVE LStrip(_)
LStrip(s) ==
    IF s = <<>> THEN <<>>
    ELSE IF Head(s) \in Whitespace THEN LStrip(Tail(s)) ELSE s

RECURSIVE RStrip(_)
RStrip(s) ==
    IF s = <<>> THEN <<>>
    ELSE IF s[Len(s)] \in Whitespace THEN RStrip(SubSeq(s, 1, Len(s) - 1))
    ELSE s

\* str.strip()
Strip(s) == RStrip(LStrip(s))

\* Reading in text mode with newline=None: "\r\n" and a lone "\r" both
\* become "\n".
RECURSIVE UniversalNewlines(_)
UniversalNewlines(b) ==
    IF b = <<>> THEN <<>>
    ELSE IF Head(b) = "CR"
         THEN <<"LF">> \o UniversalNewlines(
                  IF Len(b) > 1 /\ b[2] = "LF" THEN Tail(Tail(b)) ELSE Tail(b))
         ELSE <<Head(b)>> \o UniversalNewlines(Tail(b))

\* os.linesep of the platform the pipeline runs on (POSIX).
os_linesep == <<"LF">>

\* Writing in text mode with newline=None: every "\n" becomes os.linesep.
RECURSIVE TranslateOnWrite(_)
TranslateOnWrite(s) ==
    IF s = <<>> THEN <<>>
    ELSE (IF Head(s) = "LF" THEN os_linesep ELSE <<Head(s)>>)
         \o TranslateOnWrite(Tail(s))

(***************************************************************************)
(* RustWorkspace.  Each operation is given the file content it finds and   *)
(* yields the value returned and/or the file content it leaves.            *)
(***************************************************************************)
\* RustWorkspace.current_text
current_text(file) ==
    IF file = NoFile THEN <<>> ELSE UniversalNewlines(file)

\* A write that trims the data first.
write_text_stripped(data) == TranslateOnWrite(Strip(data))

\* RustWorkspace.write_text: the file content after write_text(data)
write_text(data) == TranslateOnWrite(data)

\* RustWorkspace.snapshot
take_snapshot(file) == current_text(file)

\* A reset that leaves an empty line behind.
reset_to_newline == write_text(<<"LF">>)

\* RustWorkspace.reset: the file content after reset()
reset == write_text(<<>>)

\* A constructor that truncates the file whatever `reset` says.
RustWorkspaceAlwaysReset(file, do_reset) == write_text(<<>>)

\* RustWorkspace.__init__: the file content after construction
RustWorkspace(file, do_reset) ==
    IF do_reset \/ file = NoFile THEN write_text(<<>>) ELSE file

\* What one run of the external `patch` tool may do: its exit status, its
\* diagnostic output and the file content it leaves (on failure possibly a
\* partially patched file, or no file at all).
PatchDiagnostics == {<<>>, <<"hunk FAILED">>}
PatchedFiles ==
    {NoFile, <<>>, <<"x">>, <<"x", "LF", "y">>, <<"x", "CR", "LF">>}
PatchToolRuns ==
    [returncode : {0, 1},
     output : PatchDiagnostics,
     file : PatchedFiles]

\* An apply_patch that hands every patch text to the tool.
apply_patch_unchecked(file, patch_text, tool) ==
    IF tool.returncode # 0
    THEN [applied |-> FALSE,
          error |-> IF tool.output # <<>> THEN tool.output
                    ELSE <<"patch command failed">>,
          file |-> tool.file, tool_used |-> TRUE]
    ELSE [applied |-> TRUE, error |-> <<>>, file |-> tool.file,
          tool_used |-> TRUE]

\* RustWorkspace.apply_patch: the pair it returns, the file content it
\* leaves and whether the patch tool was run
apply_patch(file, patch_text, tool) ==
    IF Strip(patch_text) = <<>>
    THEN [applied |-> FALSE, error |-> <<"Empty patch">>, file |-> file,
          tool_used |-> FALSE]
    ELSE IF tool.returncode # 0
         THEN [applied |-> FALSE,
               error |-> IF tool.output # <<>> THEN tool.output
                         ELSE <<"patch command failed">>,
               file |-> tool.file, tool_used |-> TRUE]
         ELSE [applied |-> TRUE, error |-> <<>>, file |-> tool.file,
               tool_used |-> TRUE]

\* `snippet in text`
Occurs(snippet, text) ==
    \E i \in 1..(Len(text) - Len(snippet) + 1) :
        SubSeq(text, i, i + Len(snippet) - 1) = snippet

\* RustWorkspace.append_block: the file content after the call
append_block(file, label, code) ==
    LET snippet == Strip(code)
        needs_padding == file # NoFile /\ file # <<>>
        parts == (IF needs_padding THEN <<"LF", "LF">> ELSE <<>>)
                 \o (IF label # None /\ label[1] # <<>>
                     THEN <<"// ">> \o label[1] \o <<"LF">> ELSE <<>>)
                 \o snippet \o <<"LF">>
    IN  IF snippet = <<>> THEN file
        ELSE IF Occurs(snippet, current_text(file)) THEN file
        ELSE (IF file = NoFile THEN <<>> ELSE file) \o TranslateOnWrite(parts)

(***************************************************************************)
(* The external collaborators of the orchestrator.                         *)
(***************************************************************************)
\* patch_diff values the Code-Generation Oracle (self.modules.translator)
\* may return: nothing, whitespace only, or a diff with surrounding
\* whitespace.
PatchDiffs == {<<>>, <<" ">>, <<"LF", "d", " ">>}

\* How the rustc subprocess of RustCompiler.compile may end.
RustcOutcomes == {"exit 0", "exit 1", "TimeoutExpired"}

TimeoutDiagnostic == <<"timed out">>
CompilerDiagnostics == {<<"E0308">>, TimeoutDiagnostic}

\* A compile that lets subprocess.TimeoutExpired escape.
compile_without_timeout_handler(outcome) ==
    [raised |-> outcome = "TimeoutExpired",
     success |-> outcome = "exit 0",
     errors |-> IF outcome = "exit 1" THEN <<"E0308">> ELSE <<>>]

\* RustCompiler.compile, given how rustc ended: whether it raises, and the
\* (success, errors) pair it returns.
compile(outcome) ==
    [raised |-> FALSE,
     success |-> outcome = "exit 0",
     errors |-> CASE outcome = "exit 0" -> <<>>
                  [] outcome = "exit 1" -> <<"E0308">>
                  [] outcome = "TimeoutExpired" -> TimeoutDiagnostic]

\* What RustCompiler.compile may answer.
CompilerRuns == {compile(outcome) : outcome \in RustcOutcomes}

(***************************************************************************)
(* Components as the orchestrator receives them.                           *)
(***************************************************************************)
Decl(name, code) == [name |-> name, kind |-> "function", code |-> code]

\* Declaration lists of one component: a declaration without extractable
\* code, a declaration with code, and a mutually recursive pair of which
\* one member has whitespace-only code.
DeclarationLists ==
    {<<Decl("f", <<>>)>>,
     <<Decl("g", <<"c">>)>>,
     <<Decl("h", <<" ">>), Decl("k", <<"c", "LF">>)>>}

ComponentLists ==
    UNION {
        {[i \in 1..n |->
             [index |-> i,
              declaration_ids |-> [j \in 1..Len(ds[i]) |-> ds[i][j].name],
              declarations |-> ds[i]]] : ds \in [1..n -> DeclarationLists]}
        : n \in 0..MaxComponents}

\* IRENEPipeline._combine_declaration_code
RECURSIVE _combine_declaration_code(_)
_combine_declaration_code(decls) ==
    IF decls = <<>> THEN <<>>
    ELSE LET code == Strip(Head(decls).code)
             rest == _combine_declaration_code(Tail(decls))
             chunk == <<"// Declaration: ", Head(decls).name, "LF">> \o code
         IN  IF code = <<>> THEN rest
             ELSE IF rest = <<>> THEN chunk
             ELSE chunk \o <<"LF", "LF">> \o rest

DeclNames(decls) == [j \in 1..Len(decls) |-> decls[j].name]

\* IRENEPipeline._summaries_for_declarations: one entry for each
\* declaration that has code (what the summarizer says is left open).
RECURSIVE _summaries_for_declarations(_)
_summaries_for_declarations(decls) ==
    IF decls = <<>> THEN <<>>
    ELSE LET rest == _summaries_for_declarations(Tail(decls))
         IN  IF Strip(Head(decls).code) = <<>> THEN rest
             ELSE <<[name |-> Head(decls).name, kind |-> Head(decls).kind]>>
                  \o rest

\* A loop that translates every component it is given.
SkipsNoComponent(c_source) == FALSE

\* The test of translate_project that makes it skip a component: its
\* combined source is empty once stripped.
SkipsComponent(c_source) == Strip(c_source) = <<>>

(***************************************************************************)
(* IRENEPipeline.                                                          *)
(***************************************************************************)
\* The defaults of max_hops and max_entries of _build_dependency_context.
DefaultMaxHops == 2
DefaultMaxEntries == 12

NoCalls == [oracle |-> 0, patch |-> 0, compiler |-> 0]

NothingObserved ==
    [diff |-> <<>>,           \* the last patch_diff the oracle returned
     feedback |-> <<>>,       \* compiler_errors given to the last oracle call
     apply_error |-> <<>>,    \* error returned by the last apply_patch
     diagnostic |-> <<>>,     \* errors returned by the last compile
     compiled_text |-> None,  \* the last text compile accepted, if any
     start_text |-> <<>>,     \* current_text() when the component started
     interrupted_at |-> "nowhere", \* where a KeyboardInterrupt met the run
     first_view |-> <<>>,     \* workspace_view given to the first oracle call
     view |-> <<>>,           \* workspace_view given to the last oracle call
     compiler_input |-> None] \* the text the compile of this pass was given

\* IRENEPipeline._generate_patch, given the patch_diff the translator
\* returned: the patch it returns, or the RuntimeError it raises.
_generate_patch(diff, workspace_file_name) ==
    LET patch == Strip(diff)
    IN  IF workspace_file_name /\ patch = <<>>
        THEN [raised |-> TRUE, patch |-> <<>>]
        ELSE [raised |-> FALSE, patch |-> patch]

\* A retry check that is off by one.
BudgetExhaustedOffByOne(iter) == iter >= max_iterations

\* The iteration at which _compile_with_refinement stops retrying.
BudgetExhausted(iter) == iter >= max_iterations - 1

\* A failed apply whose partial result is kept.
KeepAfterApplyFailure(file, snap) == file

\* workspace_handle.write_text(snapshot) after a failed apply_patch: the
\* file content it leaves, given the content the patch tool left.
RollbackAfterApplyFailure(file, snap) == write_text(snap)

\* A failed compile whose patch is kept.
KeepAfterCompileFailure(file, snap) == file

\* workspace_handle.write_text(snapshot) after a failed compile: the file
\* content it leaves, given the patched content.
RollbackAfterCompileFailure(file, snap) == write_text(snap)

\* A loop that shows the translator the patched text after a failed compile.
PatchedViewAfterCompileFailure(patched, snap) == patched

\* workspace_view after a failed compile: the snapshot again.
ViewAfterCompileFailure(patched, snap) == snap

\* A loop that compiles the patch it was given.
CompilerInputPatchOnly(file, patch) == patch

\* The argument of self.compiler.compile: workspace_handle.current_text()
\* after the patch was applied.
CompilerInput(file, patch) == current_text(file)

\* A result that reports the loop variable instead of the attempt count.
CompilationResultZeroBased(is_compiled, iter, errs) ==
    [success |-> is_compiled,
     iterations |-> iter,
     errors |-> IF is_compiled THEN None ELSE Some(errs)]

\* A result that carries the compiler output even after a success.
CompilationResultKeepingErrors(is_compiled, iter, errs) ==
    [success |-> is_compiled,
     iterations |-> iter + 1,
     errors |-> Some(errs)]

\* CompilationResult built at the end of _compile_with_refinement
CompilationResult(is_compiled, iter, errs) ==
    [success |-> is_compiled,
     iterations |-> iter + 1,
     errors |-> IF is_compiled THEN None ELSE Some(errs)]

\* The for loop of GUARDIANPipeline._compile_with_refinement from the given
\* value of `iteration` on, runs[k] being what the k-th compile answers:
\* the values of compiled, iteration and errors when the loop ends.
RECURSIVE guardian_refinement_loop(_, _, _)
guardian_refinement_loop(iter, runs, max) ==
    LET run == runs[iter + 1]
    IN  IF run.success
        THEN [compiled |-> TRUE, iteration |-> iter, errors |-> run.errors]
        ELSE IF iter + 1 < max
        THEN guardian_refinement_loop(iter + 1, runs, max)
        ELSE [compiled |-> FALSE, iteration |-> iter, errors |-> run.errors]

\* GUARDIANPipeline._compile_with_refinement: the CompilationResult it
\* returns, or the error it raises when the loop body never ran and
\* `iteration` is unbound.
guardian_compile_with_refinement(max, runs) ==
    IF max = 0 THEN [raised |-> TRUE, result |-> None]
    ELSE LET end == guardian_refinement_loop(0, runs, max)
         IN  [raised |-> FALSE,
              result |-> Some(CompilationResult(end.compiled, end.iteration,
                                                end.errors))]

\* A loop that keeps only the entry of the component it translated last.
ReturnLatestOnly(is_compiled, iter, errs) ==
    LET component == components[component_pos]
        summaries == _summaries_for_declarations(component.declarations)
    IN  /\ results' =
              <<[scc_index |-> component.index,
                 declarations |-> DeclNames(component.declarations),
                 summaries |-> summaries,
                 compilation |-> CompilationResult(is_compiled, iter, errs)]>>
        /\ component_summaries' =
              [k \in DOMAIN component_summaries \cup {component.index} |->
                  IF k = component.index THEN summaries
                  ELSE component_summaries[k]]
        /\ component_pos' = component_pos + 1
        /\ pc' = "loop"

\* A loop that records the summaries of the components that compiled only.
ReturnRecordingSuccessOnly(is_compiled, iter, errs) ==
    LET component == components[component_pos]
        summaries == _summaries_for_declarations(component.declarations)
    IN  /\ results' = Append(results,
              [scc_index |-> component.index,
               declarations |-> DeclNames(component.declarations),
               summaries |-> summaries,
               compilation |-> CompilationResult(is_compiled, iter, errs)])
        /\ component_summaries' =
              IF is_compiled
              THEN [k \in DOMAIN component_summaries \cup {component.index} |->
                       IF k = component.index THEN summaries
                       ELSE component_summaries[k]]
              ELSE component_summaries
        /\ component_pos' = component_pos + 1
        /\ pc' = "loop"

\* The end of _compile_with_refinement, of translate and of the loop body
\* of translate_project: the result entry is appended, the summaries of the
\* component are recorded and the loop goes on.
Return(is_compiled, iter, errs) ==
    LET component == components[component_pos]
        summaries == _summaries_for_declarations(component.declarations)
    IN  /\ results' = Append(results,
              [scc_index |-> component.index,
               declarations |-> DeclNames(component.declarations),
               summaries |-> summaries,
               compilation |-> CompilationResult(is_compiled, iter, errs)])
        /\ component_summaries' =
              [k \in DOMAIN component_summaries \cup {component.index} |->
                  IF k = component.index THEN summaries
                  ELSE component_summaries[k]]
        /\ component_pos' = component_pos + 1
        /\ pc' = "loop"

\* Lines 411-424 of _compile_with_refinement after a failed attempt.
AfterFailedAttempt(errs) ==
    IF BudgetExhausted(iteration)
    THEN Return(FALSE, iteration, errs)
    ELSE /\ pc' = "refine"
         /\ UNCHANGED <<results, component_summaries, component_pos>>

\* translate_project up to the loop over the components.
TranslateProject ==
    /\ pc = "start"
    /\ IF components = <<>>
       THEN /\ pc' = "returned"
            /\ UNCHANGED workspace_file
       ELSE /\ pc' = "loop"
            /\ workspace_file' =
                  IF workspace_given THEN RustWorkspace(workspace_file, TRUE)
                  ELSE workspace_file
    /\ UNCHANGED <<max_iterations, workspace_given, components, component_pos,
                   iteration, pending_patch, snapshot, errors, compiled,
                   workspace_view, results, component_summaries, calls,
                   attempt_log, observed>>
    /\ UNCHANGED <<graphVars, workspaceVars, parallelVars, digestVars>>

\* The head of the loop over the components: the end of the run, a skipped
\* component, or the start of translate() for the component.
NextComponent ==
    /\ pc = "loop"
    /\ IF component_pos > Len(components)
       THEN /\ pc' = "returned"
            /\ UNCHANGED <<component_pos, calls, attempt_log, observed>>
            /\ UNCHANGED digestVars
       ELSE LET component == components[component_pos]
                c_source == _combine_declaration_code(component.declarations)
            IN  IF SkipsComponent(c_source)
                THEN /\ component_pos' = component_pos + 1
                     /\ UNCHANGED <<pc, calls, attempt_log, observed>>
                     /\ UNCHANGED digestVars
                ELSE /\ calls' = NoCalls
                     /\ attempt_log' = <<>>
                     /\ observed' =
                           [NothingObserved EXCEPT
                               !.compiled_text = observed.compiled_text,
                               !.start_text = current_text(workspace_file)]
                     /\ pc' = "digest"
                     /\ component_index' = component.index
                     /\ queue' = <<>>
                     /\ seen_components' = {}
                     /\ seen_decls' = {}
                     /\ lines' = <<>>
                     /\ visits' = <<>>
                     /\ dependency_context' = <<>>
                     /\ digest_pc' = "called"
                     /\ UNCHANGED <<component_pos, component_dependencies,
                                    max_hops, max_entries>>
    /\ UNCHANGED <<max_iterations, workspace_given, components, workspace_file,
                   iteration, pending_patch, snapshot, errors, compiled,
                   workspace_view, results, component_summaries>>
    /\ UNCHANGED <<graphVars, workspaceVars, parallelVars>>

\* The call of translate() for the component once its digest is there;
\* translate() raises at once when it has neither a workspace handle nor a
\* workspace path.
CallTranslate ==
    /\ pc = "digest"
    /\ digest_pc = "returned"
    /\ pc' = IF workspace_given THEN "translate" ELSE "aborted"
    /\ UNCHANGED <<max_iterations, workspace_given, components, workspace_file,
                   component_pos, iteration, pending_patch, snapshot, errors,
                   compiled, workspace_view, results, component_summaries,
                   calls, attempt_log, observed>>
    /\ UNCHANGED <<graphVars, workspaceVars, parallelVars, digestVars>>

\* translate() called on its own for one snippet, with a workspace path
\* or without, and never with a workspace handle: the workspace object is
\* made with reset=False, or the call raises.
Translate ==
    /\ pc = "called translate"
    /\ IF workspace_given
       THEN LET file == RustWorkspace(workspace_file, FALSE)
            IN  /\ workspace_file' = file
                /\ observed' = [NothingObserved EXCEPT
                                   !.start_text = current_text(file)]
                /\ pc' = "translate"
       ELSE /\ pc' = "aborted"
            /\ UNCHANGED <<workspace_file, observed>>
    /\ UNCHANGED <<max_iterations, workspace_given, components, component_pos,
                   iteration, pending_patch, snapshot, errors, compiled,
                   workspace_view, results, component_summaries, calls,
                   attempt_log>>
    /\ UNCHANGED <<graphVars, workspaceVars, parallelVars, digestVars>>

\* translate(): the initial request to the oracle and the entry into
\* _compile_with_refinement.
InitialPatch ==
    /\ pc = "translate"
    /\ \E diff \in PatchDiffs :
          LET view == current_text(workspace_file)
              generated == _generate_patch(diff, TRUE)
          IN  /\ calls' = [calls EXCEPT !.oracle = @ + 1]
              /\ observed' = [observed EXCEPT
                                 !.diff = diff,
                                 !.feedback = <<>>,
                                 !.first_view = view,
                                 !.view = view]
              /\ IF generated.raised \/ max_iterations = 0
                 THEN /\ pc' = "aborted"
                      /\ UNCHANGED <<iteration, pending_patch, errors,
                                     compiled, workspace_view>>
                 ELSE /\ pc' = "apply"
                      /\ workspace_view' = view
                      /\ pending_patch' = generated.patch
                      /\ compiled' = FALSE
                      /\ errors' = <<>>
                      /\ iteration' = 0
    /\ UNCHANGED <<max_iterations, workspace_given, components, workspace_file,
                   component_pos, snapshot, results, component_summaries,
                   attempt_log>>
    /\ UNCHANGED <<graphVars, workspaceVars, parallelVars, digestVars>>

\* One pass of the loop of _compile_with_refinement up to the verdict of
\* apply_patch: snapshot, apply, and on failure the rollback.
ApplyPatch ==
    /\ pc = "apply"
    /\ IF pending_patch # <<>>
       THEN \E tool \in PatchToolRuns :
               LET taken == take_snapshot(workspace_file)
                   r == apply_patch(workspace_file, pending_patch, tool)
               IN  /\ snapshot' = taken
                   /\ calls' = [calls EXCEPT !.patch = @ + 1]
                   /\ observed' = [observed EXCEPT !.apply_error = r.error]
                   /\ IF ~r.applied
                      THEN LET errs == <<"Failed to apply patch: ">> \o r.error
                           IN  /\ errors' = errs
                               /\ workspace_file' =
                                     RollbackAfterApplyFailure(r.file, taken)
                               /\ attempt_log' = Append(attempt_log, "apply failed")
                               /\ AfterFailedAttempt(errs)
                      ELSE /\ workspace_file' = r.file
                           /\ attempt_log' = Append(attempt_log, "applied")
                           /\ pc' = "compile"
                           /\ UNCHANGED <<errors, results,
                                          component_summaries, component_pos>>
       ELSE LET errs == <<"Missing patch diff from model">>
            IN  /\ errors' = errs
                /\ attempt_log' = Append(attempt_log, "missing patch")
                /\ AfterFailedAttempt(errs)
                /\ UNCHANGED <<snapshot, calls, observed, workspace_file>>
    /\ UNCHANGED <<max_iterations, workspace_given, components, iteration,
                   pending_patch, compiled, workspace_view>>
    /\ UNCHANGED <<graphVars, workspaceVars, parallelVars, digestVars>>

\* The rest of the pass after a patch applied: compile the whole workspace
\* text, keep it on success, roll it back on failure.
Compile ==
    /\ pc = "compile"
    /\ \E run \in CompilerRuns :
          LET text == CompilerInput(workspace_file, pending_patch)
              n == Len(attempt_log)
          IN  /\ calls' = [calls EXCEPT !.compiler = @ + 1]
              /\ errors' = run.errors
              /\ IF run.raised
                 THEN /\ pc' = "aborted"
                      /\ attempt_log' = [attempt_log EXCEPT ![n] = "compile raised"]
                      /\ UNCHANGED <<workspace_file, workspace_view, observed,
                                     compiled, results, component_summaries,
                                     component_pos>>
                 ELSE IF run.success
                 THEN /\ compiled' = TRUE
                      /\ workspace_view' = text
                      /\ observed' = [observed EXCEPT
                                         !.diagnostic = run.errors,
                                         !.compiled_text = Some(text),
                                         !.compiler_input = Some(text)]
                      /\ attempt_log' = [attempt_log EXCEPT ![n] = "compiled"]
                      /\ Return(TRUE, iteration, run.errors)
                      /\ UNCHANGED workspace_file
                 ELSE /\ workspace_file' =
                            RollbackAfterCompileFailure(workspace_file, snapshot)
                      /\ workspace_view' =
                            ViewAfterCompileFailure(text, snapshot)
                      /\ observed' = [observed EXCEPT
                                         !.diagnostic = run.errors,
                                         !.compiler_input = Some(text)]
                      /\ attempt_log' = [attempt_log EXCEPT ![n] = "compile failed"]
                      /\ AfterFailedAttempt(run.errors)
                      /\ UNCHANGED compiled
    /\ UNCHANGED <<max_iterations, workspace_given, components, iteration,
                   pending_patch, snapshot>>
    /\ UNCHANGED <<graphVars, workspaceVars, parallelVars, digestVars>>

\* The corrective request at the end of a failed pass and the step of the
\* for loop to the next pass.
CorrectivePatch ==
    /\ pc = "refine"
    /\ \E diff \in PatchDiffs :
          LET generated == _generate_patch(diff, TRUE)
          IN  /\ calls' = [calls EXCEPT !.oracle = @ + 1]
              /\ observed' = [observed EXCEPT
                                 !.diff = diff,
                                 !.feedback = errors,
                                 !.view = workspace_view,
                                 !.compiler_input = None]
              /\ IF generated.raised
                 THEN /\ pc' = "aborted"
                      /\ UNCHANGED <<pending_patch, iteration, results,
                                     component_summaries, component_pos>>
                 ELSE /\ pending_patch' = generated.patch
                      /\ IF iteration + 1 < max_iterations
                         THEN /\ iteration' = iteration + 1
                              /\ pc' = "apply"
                              /\ UNCHANGED <<results, component_summaries,
                                             component_pos>>
                         ELSE /\ Return(compiled, iteration, errors)
                              /\ UNCHANGED iteration
    /\ UNCHANGED <<max_iterations, workspace_given, components, workspace_file,
                   snapshot, errors, compiled, workspace_view, attempt_log>>
    /\ UNCHANGED <<graphVars, workspaceVars, parallelVars, digestVars>>

\* No parallel extraction is under way.
ParallelIdle ==
    /\ futures = <<>>
    /\ future_pos = 1
    /\ merging = {}

\* No digest is being built.
DigestIdle ==
    /\ component_dependencies = <<>>
    /\ component_index = 0
    /\ max_hops = 0
    /\ max_entries = 0
    /\ queue = <<>>
    /\ seen_components = {}
    /\ seen_decls = {}
    /\ lines = <<>>
    /\ visits = <<>>
    /\ dependency_context = <<>>
    /\ digest_pc = "idle"

GraphIdle ==
    /\ declarations = <<>>
    /\ edges = {}
    /\ graph = [nodes |-> <<>>, edges |-> {}]
    /\ scc_components = <<>>
    /\ phase = "idle"
    /\ project = [ids |-> {}, reasons |-> {}, spellings |-> FALSE,
                  hints |-> FALSE]
    /\ sightings = <<>>
    /\ readded = {}
    /\ expected = [declarations |-> <<>>, edges |-> {}, references |-> {}]
    /\ skipped = {}
    /\ earlier_components = None
    /\ units = <<>>
    /\ added = <<>>

\* The component_dependencies translate_project may get from
\* _map_component_dependencies for a list of components, here one in
\* which every component is referred to by all the components before it.
ComponentDependencies(comps) ==
    {[i \in DOMAIN comps |-> {j \in DOMAIN comps : j < i}]}

\* The pipeline before a call of translate_project or translate.
PipelineReady ==
    /\ max_iterations \in 0..MaxIter
    /\ workspace_given \in BOOLEAN
    /\ components \in ComponentLists
    /\ workspace_file \in {NoFile, <<"x", "LF">>}
    /\ component_pos = 1
    /\ iteration = 0
    /\ pending_patch = <<>>
    /\ snapshot = <<>>
    /\ errors = <<>>
    /\ compiled = FALSE
    /\ workspace_view = <<>>
    /\ results = <<>>
    /\ component_summaries = <<>>
    /\ calls = NoCalls
    /\ attempt_log = <<>>
    /\ observed = NothingObserved
    /\ GraphIdle
    /\ last_op = [op |-> "none", data |-> <<>>, label |-> <<>>,
                  returned |-> <<>>, before |-> NoFile, repeated |-> FALSE]
    /\ rollback = [stage |-> "none", text |-> <<>>]
    /\ ParallelIdle
    /\ component_dependencies \in ComponentDependencies(components)
    /\ component_index = 0
    /\ max_hops = DefaultMaxHops
    /\ max_entries = DefaultMaxEntries
    /\ queue = <<>>
    /\ seen_components = {}
    /\ seen_decls = {}
    /\ lines = <<>>
    /\ visits = <<>>
    /\ dependency_context = <<>>
    /\ digest_pc = "idle"

InitPipeline ==
    /\ PipelineReady
    /\ pc = "start"

\* translate_project is called, or translate() is called on its own for
\* one snippet.
InitTranslate ==
    /\ PipelineReady
    /\ \/ pc = "start"
       \/ pc = "called translate" /\ Len(components) = 1

\* A KeyboardInterrupt delivered while a component is being translated:
\* nothing in translate_project, translate or _compile_with_refinement
\* catches it, so it leaves the run where it was.
Interrupt ==
    /\ pc \in {"translate", "apply", "compile", "refine"}
    /\ pc' = "interrupted"
    /\ observed' = [observed EXCEPT !.interrupted_at = pc]
    /\ UNCHANGED <<max_iterations, workspace_given, components, workspace_file,
                   component_pos, iteration, pending_patch, snapshot, errors,
                   compiled, workspace_view, results, component_summaries,
                   calls, attempt_log>>
    /\ UNCHANGED <<graphVars, workspaceVars, parallelVars, digestVars>>

(***************************************************************************)
(* Properties of a run of translate_project.                               *)
(***************************************************************************)
Last(s) == s[Len(s)]

\* A component's translate() has returned and no later one has started:
\* calls, attempt_log and observed describe the component of the last
\* result entry.
Finished == pc \in {"loop", "returned"} /\ results # <<>>

LastCompilation == Last(results).compilation

\* The error text an attempt of the given outcome leaves behind.
AttemptError(outcome) ==
    IF outcome = "apply failed"
    THEN <<"Failed to apply patch: ">> \o observed.apply_error
    ELSE observed.diagnostic

NonEmptySource(component) ==
    Strip(_combine_declaration_code(component.declarations)) # <<>>

\* C1: for max_iterations >= 1 the translator is invoked at most
\* max_iterations times for a component, whatever the oracle, the patch
\* tool and the compiler answer.
C1_OracleCallsBounded ==
    max_iterations >= 1 => calls.oracle <= max_iterations

C1_Witness ==
    /\ Finished
    /\ max_iterations >= 2
    /\ calls.oracle = max_iterations

\* C2: when every attempt of a component fails, at patch application or at
\* compilation, the component's result is success = false, iterations =
\* max_iterations, errors = the error of the last attempt, and the
\* workspace text is the one the component started with.
C2_ExhaustedBudgetResult ==
    (/\ Finished
     /\ \A i \in DOMAIN attempt_log :
           attempt_log[i] \in {"apply failed", "compile failed"})
    => /\ LastCompilation =
             [success |-> FALSE,
              iterations |-> max_iterations,
              errors |-> Some(AttemptError(Last(attempt_log)))]
       /\ current_text(workspace_file) = observed.start_text

C2_Witness ==
    /\ Finished
    /\ max_iterations = 3
    /\ attempt_log = <<"compile failed", "apply failed", "compile failed">>
    /\ ~LastCompilation.success
    /\ observed.start_text # <<>>

\* C3: when every patch applies and the compiler fails on attempts 1..k-1
\* and succeeds on attempt k, the result is success = true, iterations = k,
\* errors = None, and the oracle, the patch tool and the compiler have each
\* been called exactly k times for the component.
C3_SuccessAtAttemptK ==
    \A k \in 1..max_iterations :
        (/\ Finished
         /\ attempt_log =
               [i \in 1..k |-> IF i < k THEN "compile failed" ELSE "compiled"])
        => /\ LastCompilation =
                 [success |-> TRUE, iterations |-> k, errors |-> None]
           /\ calls = [oracle |-> k, patch |-> k, compiler |-> k]

C3_Witness ==
    /\ Finished
    /\ attempt_log = <<"compile failed", "compile failed", "compiled">>
    /\ LastCompilation.iterations = 3

\* C4: between the components of a run that has a workspace, the workspace
\* text is the initial empty text or the text the compiler last accepted.
C4_WorkspaceHoldsCompiledText ==
    (workspace_given /\ components # <<>> /\ pc \in {"loop", "returned"})
    => current_text(workspace_file) =
          IF observed.compiled_text = None THEN <<>>
          ELSE observed.compiled_text[1]

C4_Witness ==
    /\ Finished
    /\ Len(results) = 2
    /\ Last(attempt_log) = "compile failed"
    /\ observed.compiled_text # None
    /\ current_text(workspace_file) # <<>>

\* C5: no exception raised while one component is processed aborts
\* translate_project (the run has a workspace and max_iterations >= 1).
C5_NoComponentAbortsRun ==
    (workspace_given /\ max_iterations >= 1) => pc # "aborted"

\* C6: an empty or whitespace-only diff from the oracle is a failed attempt
\* with a missing-patch error that leaves the workspace unchanged and goes
\* on to the retry decision; it never aborts the component.
C6_EmptyDiffIsFailedAttempt ==
    (max_iterations >= 1 /\ calls.oracle > 0 /\ Strip(observed.diff) = <<>>)
    => /\ pc # "aborted"
       /\ current_text(workspace_file) = observed.start_text
       /\ pc \in {"refine", "loop", "returned"}
             => /\ attempt_log # <<>>
                /\ Last(attempt_log) = "missing patch"
                /\ errors = <<"Missing patch diff from model">>

\* C7: when the run ends, every component with non-empty source has a
\* result entry, whatever happened to the components before it.
C7_EveryComponentGetsResult ==
    (workspace_given /\ max_iterations >= 1 /\ pc \in {"returned", "aborted"})
    => \A i \in DOMAIN components :
          NonEmptySource(components[i])
          => \E j \in DOMAIN results :
                results[j].scc_index = components[i].index

\* C8: a failed apply_patch is never followed by a compile in the same
\* attempt, the workspace text is restored to the snapshot taken before
\* the apply, the apply error is the feedback of the next request to the
\* oracle, and the attempt consumes one iteration.
C8_ApplyFailureRollsBack ==
    /\ calls.compiler =
          Cardinality({i \in DOMAIN attempt_log :
                          attempt_log[i] \in {"compiled", "compile failed"}})
    /\ (attempt_log # <<>> /\ Last(attempt_log) = "apply failed")
       => /\ current_text(workspace_file) = snapshot
          /\ errors = AttemptError("apply failed")
          /\ pc = "refine" => iteration + 1 = Len(attempt_log)
          /\ pc = "apply" => /\ iteration = Len(attempt_log)
                             /\ observed.feedback = AttemptError("apply failed")
          /\ Finished => LastCompilation.iterations = Len(attempt_log)

C8_Witness ==
    /\ pc = "apply"
    /\ attempt_log # <<>>
    /\ Last(attempt_log) = "apply failed"
    /\ snapshot # <<>>
    /\ observed.feedback = <<"Failed to apply patch: ", "hunk FAILED">>

\* A component some declaration of which has code left after stripping.
HasCode(component) ==
    \E j \in DOMAIN component.declarations :
        Strip(component.declarations[j].code) # <<>>

\* The components of the list that have code, in list order.
WithCode(comps) == SelectSeq(comps, HasCode)

\* C21: when translate_project returns, its list has one entry for each
\* component that was not skipped, in the order of the components and so
\* with strictly increasing indices; an entry carries the component's
\* index, the names of its declarations and the outcome (success, number
\* of iterations, final error or None).  For no components the list is
\* empty.
C21_OneEntryPerTranslatedComponent ==
    pc = "returned"
    => LET translated == WithCode(components)
       IN  /\ Len(results) = Len(translated)
           /\ components = <<>> => results = <<>>
           /\ \A j \in DOMAIN results :
                 /\ results[j].scc_index = translated[j].index
                 /\ results[j].declarations =
                       [d \in DOMAIN translated[j].declarations |->
                           translated[j].declarations[d].name]
                 /\ results[j].compilation.success \in BOOLEAN
                 /\ results[j].compilation.iterations \in 1..max_iterations
                 /\ results[j].compilation.success
                       <=> results[j].compilation.errors = None
                 /\ j > 1 => results[j - 1].scc_index < results[j].scc_index

C21_Witness ==
    /\ pc = "returned"
    /\ Len(components) = 2
    /\ Len(results) = 2
    /\ results[1].compilation.success
    /\ ~results[2].compilation.success
    /\ Len(results[2].declarations) = 2

\* C22: a component none of whose declarations has code beyond whitespace
\* is skipped in one step of the loop: no oracle, patch tool or compiler
\* call is made for it, and the workspace file, the recorded summaries and
\* the result list stay as they are.
C22_SkippedComponentLeavesNoTrace ==
    [][(/\ pc = "loop"
        /\ component_pos \in DOMAIN components
        /\ ~HasCode(components[component_pos]))
       => /\ pc' = "loop"
          /\ component_pos' = component_pos + 1
          /\ calls' = calls
          /\ workspace_file' = workspace_file
          /\ component_summaries' = component_summaries
          /\ results' = results]_vars

C22_Witness ==
    /\ pc = "loop"
    /\ component_pos = 3
    /\ ~HasCode(components[2])
    /\ Len(results) = 1
    /\ DOMAIN component_summaries = {1}
    /\ calls.compiler > 0
    /\ current_text(workspace_file) # <<>>

\* C23: a timeout of the compiler comes back as (False, diagnostic) and
\* never as an exception, and the attempt takes the compile-failure path:
\* the workspace text is the snapshot taken before the patch, the attempt
\* has consumed one iteration, and the timeout diagnostic is the feedback
\* of the next request to the oracle (or the final error).
C23_TimeoutIsCompileFailure ==
    /\ \A i \in DOMAIN attempt_log : attempt_log[i] # "compile raised"
    /\ (/\ attempt_log # <<>>
        /\ Last(attempt_log) = "compile failed"
        /\ observed.diagnostic = TimeoutDiagnostic)
       => /\ current_text(workspace_file) = snapshot
          /\ errors = TimeoutDiagnostic
          /\ pc = "refine" => iteration + 1 = Len(attempt_log)
          /\ pc = "apply" => /\ iteration = Len(attempt_log)
                             /\ observed.feedback = TimeoutDiagnostic
          /\ Finished => LastCompilation =
                             [success |-> FALSE,
                              iterations |-> Len(attempt_log),
                              errors |-> Some(TimeoutDiagnostic)]

C23_Witness ==
    /\ pc = "apply"
    /\ attempt_log # <<>>
    /\ Last(attempt_log) = "compile failed"
    /\ observed.diagnostic = TimeoutDiagnostic
    /\ observed.feedback = TimeoutDiagnostic
    /\ snapshot # <<>>

\* C24: when a run is interrupted in the middle of a component, the
\* workspace text is the one the component started with (its last good
\* snapshot) by the time control is back at the caller.
C24_InterruptRestoresWorkspace ==
    pc = "interrupted"
    => current_text(workspace_file) = observed.start_text

(***************************************************************************)
(* ProjectGraphBuilder: the declaration store and the edge set.            *)
(***************************************************************************)
DeclIds == {"f", "g", "h"}
UnitPaths == {"a.c", "b.c"}
Reasons == {"call", "type"}

\* The names under which a unit may spell the definition with the given
\* id (normalize_identifier of the cursor's spelling).
Spellings(id, varied) == IF varied /\ id = "f" THEN {"f", "f_t"} ELSE {id}

\* The references the walk of build_dependency_graph may meet inside the
\* definitions of a unit: (source, target, reason) for a CALL_EXPR or a
\* TYPE_REF inside `source` that names `target`.
References(ids, reasons) == ids \X ids \X reasons

\* A per-unit graph without any edge from a definition to itself.
build_dependency_graph_without_self_references(definitions, references) ==
    LET kept == {r \in references :
                    /\ r[1] \in definitions /\ r[2] \in definitions
                    /\ r[1] # r[2]}
        pairs == {<<r[1], r[2]>> : r \in kept}
        reasons(pair) == {r[3] : r \in {x \in kept : <<x[1], x[2]>> = pair}}
    IN  {{<<pair[1], pair[2], pick[pair]>> : pair \in pairs}
         : pick \in {f \in [pairs -> Reasons] :
                        \A pair \in pairs : f[pair] \in reasons(pair)}}

\* build_dependency_graph: the edge sets the per-unit graph may have for
\* the references found.  A type reference of a definition to itself is
\* skipped, the target must be a definition of the unit, and the DiGraph
\* keeps one edge per (source, target) with the reason added last.
build_dependency_graph(definitions, references) ==
    LET kept == {r \in references :
                    /\ r[1] \in definitions /\ r[2] \in definitions
                    /\ ~(r[3] = "type" /\ r[1] = r[2])}
        pairs == {<<r[1], r[2]>> : r \in kept}
        reasons(pair) == {r[3] : r \in {x \in kept : <<x[1], x[2]>> = pair}}
    IN  {{<<pair[1], pair[2], pick[pair]>> : pair \in pairs}
         : pick \in {f \in [pairs -> Reasons] :
                        \A pair \in pairs : f[pair] \in reasons(pair)}}

\* Two of the hints StaticRuleAnalyzer attaches: same category, different
\* snippet.
ScanfHint ==
    [category |-> "I/O", code_snippet |-> "scanf",
     suggested_rust |-> "read_to_string", explanation |-> "parse the input"]
PrintfHint ==
    [category |-> "I/O", code_snippet |-> "printf",
     suggested_rust |-> "println!", explanation |-> "use the macro"]

\* The hint lists the rule analysis of a unit may yield: each hint at most
\* once, in the order the walk met the calls; empty when it found nothing
\* or failed.
HintLists(varied) ==
    IF varied
    THEN {<<>>, <<ScanfHint>>, <<PrintfHint>>, <<ScanfHint, PrintfHint>>,
          <<PrintfHint, ScanfHint>>}
    ELSE {<<>>}

Range(seq) == {seq[i] : i \in DOMAIN seq}

RECURSIVE SetToSeq(_)
SetToSeq(S) ==
    IF S = {} THEN <<>>
    ELSE LET x == CHOOSE y \in S : TRUE
         IN  <<x>> \o SetToSeq(S \ {x})

\* Every order in which the members of a set may be listed.
RECURSIVE Orderings(_)
Orderings(S) ==
    IF S = {} THEN {<<>>}
    ELSE UNION {{<<x>> \o rest : rest \in Orderings(S \ {x})} : x \in S}

\* The record collect_translation_unit_data creates for a definition found
\* in the unit at `path`.
DeclarationRecord(decl_id, name, path, rule_hints) ==
    LET line == IF path = "a.c" THEN 1 ELSE 2
        code == IF path = "a.c" THEN <<"c">> ELSE <<"c", "LF">>
    IN  [decl_id |-> decl_id,
         name |-> name,
         kind |-> "function",
         path |-> path,
         line |-> line,
         column |-> 1,
         code |-> code,
         rule_hints |-> rule_hints,
         aliases |-> {},
         extra_locations |-> {<<path, line, 1>>}]

\* TranslationUnitData of one unit: a record for each definition of the
\* unit, under the name the unit spells it with and with the hints of the
\* unit, and the edges of the per-unit graph.  The path of the unit and
\* the references the edges were made from are kept beside them.
TranslationUnitData(path, names, rule_hints, references, unit_edges) ==
    [path |-> path,
     references |-> references,
     records |-> LET order == SetToSeq(DOMAIN names)
                 IN  [i \in DOMAIN order |->
                         DeclarationRecord(order[i], names[order[i]], path,
                                           rule_hints)],
     edges |-> unit_edges]

\* The data the units of a project may yield: the project tells which
\* declarations, kinds of reference and spellings its units contain.
TranslationUnits(proj) ==
    LET Names(id) == Spellings(id, proj.spellings)
        Found(ids) == {refs \in SUBSET References(ids, proj.reasons) :
                          Cardinality(refs) <= MaxUnitEdges}
    IN  UNION {
            UNION {
                {TranslationUnitData(path, names, rule_hints, refs, unit_edges) :
                    names \in {f \in [ids -> UNION {Names(id) : id \in ids}] :
                                  \A id \in ids : f[id] \in Names(id)},
                    rule_hints \in HintLists(proj.hints),
                    unit_edges \in build_dependency_graph(ids, refs)}
                : refs \in Found(ids)}
            : path \in UnitPaths, ids \in (SUBSET proj.ids) \ {{}}}

\* What _process_command may meet for one compile command.
ExtractionOutcomes == {"ok", "missing", "read error", "parse error"}

\* A _process_command that hands on what it had when the parse failed.
_process_command_partial(outcome, data) ==
    [raised |-> FALSE,
     result |-> IF outcome \in {"missing", "read error"} THEN None
                ELSE Some(data)]

\* _process_command: whether it raises, and the TranslationUnitData (or
\* None) it returns.
_process_command(outcome, data) ==
    [raised |-> FALSE,
     result |-> IF outcome \in {"missing", "read error", "parse error"}
                THEN None
                ELSE Some(data)]

\* The sightings after the records of one more unit.
RECURSIVE RecordSightings(_, _)
RecordSightings(seen, records) ==
    IF records = <<>> THEN seen
    ELSE LET record == Head(records)
             id == record.decl_id
             sighting == [name |-> record.name,
                          kind |-> record.kind,
                          code |-> record.code,
                          rule_hints |-> record.rule_hints,
                          location |-> <<record.path, record.line,
                                         record.column>>]
         IN  RecordSightings(
                 [k \in DOMAIN seen \cup {id} |->
                     IF k = id
                     THEN (IF id \in DOMAIN seen THEN seen[id] ELSE <<>>)
                          \o <<sighting>>
                     ELSE seen[k]],
                 Tail(records))

HintKey(hint) ==
    <<hint.category, hint.code_snippet, hint.suggested_rust, hint.explanation>>

\* ProjectGraphBuilder._merge_rule_hints: the hint list of `existing` after
\* the hints of the new record were merged into it
RECURSIVE _merge_rule_hints(_, _)
_merge_rule_hints(existing_hints, new_hints) ==
    IF new_hints = <<>> THEN existing_hints
    ELSE LET hint == Head(new_hints)
             seen == {HintKey(existing_hints[i]) : i \in DOMAIN existing_hints}
         IN  _merge_rule_hints(
                 IF HintKey(hint) \in seen THEN existing_hints
                 ELSE Append(existing_hints, hint),
                 Tail(new_hints))

\* A merge that takes the new record for the stored one.
_merge_records_replacing(existing, new_record) ==
    [new_record EXCEPT
        !.aliases = IF existing.name # new_record.name
                    THEN existing.aliases \cup {new_record.name}
                    ELSE existing.aliases,
        !.extra_locations = existing.extra_locations \cup @,
        !.rule_hints = _merge_rule_hints(existing.rule_hints, @)]

\* A merge that appends the hints of the new record as they come.
_merge_records_appending_hints(existing, new_record) ==
    [existing EXCEPT
        !.aliases = IF existing.name # new_record.name
                    THEN @ \cup {new_record.name} ELSE @,
        !.extra_locations = @ \cup new_record.extra_locations,
        !.rule_hints = @ \o new_record.rule_hints]

\* A merge that keeps only the location of the latest sighting.
_merge_records_latest_location(existing, new_record) ==
    [existing EXCEPT
        !.aliases = IF existing.name # new_record.name
                    THEN @ \cup {new_record.name} ELSE @,
        !.extra_locations = new_record.extra_locations,
        !.rule_hints = _merge_rule_hints(@, new_record.rule_hints)]

\* A merge that notes the name of every record it sees as an alias.
_merge_records_aliasing_every_name(existing, new_record) ==
    [existing EXCEPT
        !.aliases = @ \cup {new_record.name},
        !.extra_locations = @ \cup new_record.extra_locations,
        !.rule_hints = _merge_rule_hints(@, new_record.rule_hints)]

\* ProjectGraphBuilder._merge_records: `existing` after the merge
_merge_records(existing, new_record) ==
    [existing EXCEPT
        !.aliases = IF existing.name # new_record.name
                    THEN @ \cup {new_record.name} ELSE @,
        !.extra_locations = @ \cup new_record.extra_locations,
        !.rule_hints = _merge_rule_hints(@, new_record.rule_hints)]

\* The loop of add_translation_unit over data.records: the store after it
RECURSIVE UpsertRecords(_, _)
UpsertRecords(store, records) ==
    IF records = <<>> THEN store
    ELSE LET record == Head(records)
             id == record.decl_id
         IN  UpsertRecords(
                 IF id \notin DOMAIN store
                 THEN [k \in DOMAIN store \cup {id} |->
                          IF k = id THEN record ELSE store[k]]
                 ELSE [store EXCEPT ![id] = _merge_records(@, record)],
                 Tail(records))

\* A build that forgets the declarations no edge mentions.
GraphNodesFromEdgesOnly(store, edge_set) ==
    {e[1] : e \in edge_set} \cup {e[2] : e \in edge_set}

\* The nodes of the graph made by build(): every stored declaration, and
\* every endpoint of an edge (add_edge creates missing nodes).
GraphNodes(store, edge_set) ==
    DOMAIN store \cup {e[1] : e \in edge_set} \cup {e[2] : e \in edge_set}

\* A build that keeps every raw edge as an edge of its own.
BuiltMultiGraphs(store, edge_set) ==
    {[nodes |-> [n \in DOMAIN store \cup {e[1] : e \in edge_set}
                              \cup {e[2] : e \in edge_set} |-> n],
      edges |-> edge_set]}

\* The graphs build() may return: one edge per (src, dst) pair, carrying
\* the reason of whichever raw edge of the pair was added last.
BuiltGraphs(store, edge_set) ==
    LET pairs == {<<e[1], e[2]>> : e \in edge_set}
        reasons(pair) == {e[3] : e \in {x \in edge_set :
                                           <<x[1], x[2]>> = pair}}
        nodes == GraphNodes(store, edge_set)
    IN  {[nodes |-> [n \in nodes |->
                        IF n \in DOMAIN store
                        THEN [name |-> store[n].name, kind |-> store[n].kind,
                              path |-> store[n].path, line |-> store[n].line,
                              column |-> store[n].column]
                        ELSE [name |-> None, kind |-> None, path |-> None,
                              line |-> None, column |-> None]],
          edges |-> {<<pair[1], pair[2], pick[pair]>> : pair \in pairs}]
         : pick \in {f \in [pairs -> Reasons] :
                        \A pair \in pairs : f[pair] \in reasons(pair)}}

(***************************************************************************)
(* dependency_order: nx.condensation (strongly connected components by     *)
(* Tarjan's algorithm) followed by nx.topological_sort (Kahn's algorithm). *)
(***************************************************************************)
Min(a, b) == IF a <= b THEN a ELSE b

Successors(G, v) == {e[2] : e \in {x \in G.edges : x[1] = v}}

Unvisited == 0 - 1

\* A pop that empties the stack instead of stopping at the root.
PopWholeStack(st, v) ==
    [st EXCEPT !.stack = <<>>, !.sccs = Append(@, Range(st.stack))]

\* The root v of a component is reached: everything above it on the stack,
\* and v itself, is one strongly connected component.
PopComponent(st, v) ==
    LET pos == CHOOSE i \in DOMAIN st.stack : st.stack[i] = v
    IN  [st EXCEPT
            !.stack = SubSeq(@, 1, pos - 1),
            !.sccs = Append(@, {st.stack[i] : i \in pos..Len(st.stack)})]

RECURSIVE StrongConnect(_, _, _)
RECURSIVE VisitSuccessors(_, _, _, _)
StrongConnect(G, v, st) ==
    LET entered == [st EXCEPT !.index[v] = st.next,
                              !.lowlink[v] = st.next,
                              !.next = st.next + 1,
                              !.stack = Append(st.stack, v)]
        visited == VisitSuccessors(G, v, SetToSeq(Successors(G, v)), entered)
    IN  IF visited.lowlink[v] = visited.index[v]
        THEN PopComponent(visited, v)
        ELSE visited

VisitSuccessors(G, v, ws, st) ==
    IF ws = <<>> THEN st
    ELSE LET w == Head(ws)
             after ==
                 IF st.index[w] = Unvisited
                 THEN LET sub == StrongConnect(G, w, st)
                      IN  [sub EXCEPT !.lowlink[v] =
                              Min(sub.lowlink[v], sub.lowlink[w])]
                 ELSE IF w \in Range(st.stack)
                      THEN [st EXCEPT !.lowlink[v] =
                              Min(st.lowlink[v], st.index[w])]
                      ELSE st
         IN  VisitSuccessors(G, v, Tail(ws), after)

RECURSIVE VisitAll(_, _, _)
VisitAll(G, vs, st) ==
    IF vs = <<>> THEN st
    ELSE VisitAll(G, Tail(vs),
                  IF st.index[Head(vs)] = Unvisited
                  THEN StrongConnect(G, Head(vs), st) ELSE st)

\* nx.strongly_connected_components: the components, in the order found
StronglyConnectedComponents(G) ==
    LET nodes == DOMAIN G.nodes
    IN  VisitAll(G, SetToSeq(nodes),
                 [index |-> [n \in nodes |-> Unvisited],
                  lowlink |-> [n \in nodes |-> Unvisited],
                  next |-> 0,
                  stack |-> <<>>,
                  sccs |-> <<>>]).sccs

\* nx.condensation: one node per component, an edge X -> Y when a member
\* of X has an edge to a member of Y and X # Y
Condensation(G) ==
    LET scc == StronglyConnectedComponents(G)
        mapping == [n \in DOMAIN G.nodes |->
                       CHOOSE i \in DOMAIN scc : n \in scc[i]]
    IN  [nodes |-> DOMAIN scc,
         members |-> scc,
         edges |-> {<<mapping[e[1]], mapping[e[2]]>> :
                       e \in {x \in G.edges : mapping[x[1]] # mapping[x[2]]}}]

\* A sort that emits a node once nothing it refers to remains.
ReadyNodesCalleeFirst(C, remaining) ==
    {n \in remaining : \A m \in remaining : <<n, m>> \notin C.edges}

\* The nodes nx.topological_sort may emit next: those no remaining node has
\* an edge into.
ReadyNodes(C, remaining) ==
    {n \in remaining : \A m \in remaining : <<m, n>> \notin C.edges}

\* nx.topological_sort: every order Kahn's algorithm may produce
RECURSIVE TopologicalSorts(_, _)
TopologicalSorts(C, remaining) ==
    IF remaining = {} THEN {<<>>}
    ELSE UNION {{<<n>> \o rest :
                    rest \in TopologicalSorts(C, remaining \ {n})}
                : n \in ReadyNodes(C, remaining)}

\* A listing that may lose members of the component.
list_some_members(members) ==
    UNION {Orderings(kept) : kept \in (SUBSET members) \ {{}}}

\* list(condensation.nodes[comp]["members"]): the members of the set in
\* whatever order the iteration yields them.
list_members(members) == Orderings(members)

\* The member lists list(members) may yield for the components of a sort.
RECURSIVE MemberLists(_, _)
MemberLists(C, sort) ==
    IF sort = <<>> THEN {<<>>}
    ELSE {<<ids>> \o rest : ids \in list_members(C.members[Head(sort)]),
                            rest \in MemberLists(C, Tail(sort))}

\* dependency_order: every list of member lists it may return
dependency_order(G) ==
    LET C == Condensation(G)
    IN  UNION {MemberLists(C, sort) : sort \in TopologicalSorts(C, C.nodes)}

\* A numbering of the components that starts at 0.
ProjectGraphComponentsFromZero(order, store) ==
    [idx \in DOMAIN order |->
        [index |-> idx - 1,
         declaration_ids |-> order[idx],
         declarations |->
             LET InStore(id) == id \in DOMAIN store
                 kept == SelectSeq(order[idx], InStore)
             IN  [j \in DOMAIN kept |-> store[kept[j]]]]]

\* ProjectGraph.components, given the list dependency_order returned
ProjectGraphComponents(order, store) ==
    LET InStore(id) == id \in DOMAIN store
        numbered == [idx \in DOMAIN order |->
                        [index |-> idx,
                         declaration_ids |-> order[idx],
                         declarations |->
                             LET kept == SelectSeq(order[idx], InStore)
                             IN  [j \in DOMAIN kept |-> store[kept[j]]]]]
        HasDeclaration(c) ==
            \E j \in DOMAIN c.declaration_ids : InStore(c.declaration_ids[j])
    IN  SelectSeq(numbered, HasDeclaration)

\* node_to_component of _map_component_dependencies: the index of the
\* component that lists the declaration id (the last one that does).
node_to_component(comps, decl_id) ==
    LET listing == {i \in DOMAIN comps :
                       decl_id \in Range(comps[i].declaration_ids)}
    IN  IF listing = {} THEN None
        ELSE Some(comps[CHOOSE i \in listing : \A j \in listing : j <= i].index)

\* A mapping that notes for a component the components it refers to.
_map_component_dependencies_to_callees(G, comps) ==
    LET crossing == {e \in G.edges :
                        /\ node_to_component(comps, e[1]) # None
                        /\ node_to_component(comps, e[2]) # None
                        /\ node_to_component(comps, e[1])
                              # node_to_component(comps, e[2])}
    IN  [c \in {comps[i].index : i \in DOMAIN comps} |->
            {node_to_component(comps, e[2])[1] :
                e \in {x \in crossing :
                           node_to_component(comps, x[1]) = Some(c)}}]

\* IRENEPipeline._map_component_dependencies: for every component index
\* the set dependencies[index] (empty where the defaultdict has no key).
_map_component_dependencies(G, comps) ==
    LET crossing == {e \in G.edges :
                        /\ node_to_component(comps, e[1]) # None
                        /\ node_to_component(comps, e[2]) # None
                        /\ node_to_component(comps, e[1])
                              # node_to_component(comps, e[2])}
    IN  [c \in {comps[i].index : i \in DOMAIN comps} |->
            {node_to_component(comps, e[1])[1] :
                e \in {x \in crossing :
                           node_to_component(comps, x[2]) = Some(c)}}]

(***************************************************************************)
(* Building the project graph and decomposing it.                          *)
(***************************************************************************)
NoOperation ==
    [op |-> "none", data |-> <<>>, label |-> None, returned |-> <<>>,
     before |-> NoFile, repeated |-> FALSE]

NoRollback == [stage |-> "none", text |-> <<>>]

WorkspaceIdle ==
    /\ last_op = NoOperation
    /\ rollback = NoRollback

PipelineIdle ==
    /\ WorkspaceIdle
    /\ max_iterations = 0
    /\ workspace_given = FALSE
    /\ components = <<>>
    /\ workspace_file = NoFile
    /\ pc = "idle"
    /\ component_pos = 1
    /\ iteration = 0
    /\ pending_patch = <<>>
    /\ snapshot = <<>>
    /\ errors = <<>>
    /\ compiled = FALSE
    /\ workspace_view = <<>>
    /\ results = <<>>
    /\ component_summaries = <<>>
    /\ calls = NoCalls
    /\ attempt_log = <<>>
    /\ observed = NothingObserved

\* One pass of the loop of build_project_graph over the compile commands:
\* _process_command and, when it returned data, ProjectGraphBuilder.
\* add_translation_unit.  Every unit is processed once.
AddTranslationUnit ==
    /\ phase \in UnitPaths \cup {"building"}
    /\ \E data \in TranslationUnits(project),
          outcome \in ExtractionOutcomes :
          LET processed == _process_command(outcome, data)
              result == processed.result
          IN  /\ phase # data.path
              /\ IF result = None
                 THEN UNCHANGED <<declarations, edges>>
                 ELSE /\ declarations' =
                            UpsertRecords(declarations, result[1].records)
                      /\ edges' = edges \cup result[1].edges
              /\ IF outcome = "ok"
                 THEN /\ sightings' = RecordSightings(sightings, data.records)
                      /\ readded' = readded \cup (edges \cap data.edges)
                      /\ expected' =
                            [declarations |->
                                 UpsertRecords(expected.declarations,
                                               data.records),
                             edges |-> expected.edges \cup data.edges,
                             references |->
                                 expected.references \cup data.references]
                      /\ UNCHANGED skipped
                 ELSE /\ skipped' = skipped \cup {data.path}
                      /\ UNCHANGED <<sightings, readded, expected>>
              /\ phase' = IF processed.raised THEN "raised"
                          ELSE IF phase = "building" THEN data.path
                          ELSE "merged"
    /\ UNCHANGED <<graph, scc_components, project, earlier_components,
                   units, added>>
    /\ UNCHANGED <<pipelineVars, workspaceVars, parallelVars, digestVars>>

\* ProjectGraphBuilder.build
Build ==
    /\ phase \in UnitPaths \cup {"building", "merged"}
    /\ graph' \in BuiltGraphs(declarations, edges)
    /\ phase' = "built"
    /\ UNCHANGED <<declarations, edges, scc_components, project, sightings,
                   readded, expected, skipped, earlier_components,
                   units, added>>
    /\ UNCHANGED <<pipelineVars, workspaceVars, parallelVars, digestVars>>

\* The components of a returned list, each seen as its set of ids.
ComponentSets(comps) ==
    {Range(comps[i].declaration_ids) : i \in DOMAIN comps}

\* ProjectGraph.components, called for the first time or once more; what
\* the call before it returned and found is kept in earlier_components.
Components ==
    /\ phase \in {"built", "decomposed"}
    /\ \E order \in dependency_order(graph) :
          scc_components' = ProjectGraphComponents(order, declarations)
    /\ earlier_components' =
          IF phase = "decomposed"
          THEN Some([sets |-> ComponentSets(scc_components),
                     graph |-> graph,
                     declarations |-> declarations])
          ELSE None
    /\ phase' = "decomposed"
    /\ UNCHANGED <<declarations, edges, graph, project, sightings, readded,
                   expected, skipped, units, added>>
    /\ UNCHANGED <<pipelineVars, workspaceVars, parallelVars, digestVars>>

InitGraph ==
    /\ declarations = <<>>
    /\ edges = {}
    /\ graph = [nodes |-> <<>>, edges |-> {}]
    /\ scc_components = <<>>
    /\ phase = "building"
    /\ project = [ids |-> DeclIds, reasons |-> {"call"}, spellings |-> FALSE,
                  hints |-> FALSE]
    /\ sightings = <<>>
    /\ readded = {}
    /\ expected = [declarations |-> <<>>, edges |-> {}, references |-> {}]
    /\ skipped = {}
    /\ earlier_components = None
    /\ units = <<>>
    /\ added = <<>>
    /\ PipelineIdle
    /\ ParallelIdle
    /\ DigestIdle

NextGraph ==
    \/ AddTranslationUnit
    \/ Build
    \/ Components

\* A run of build_project_graph followed by components().
SpecGraph == InitGraph /\ [][NextGraph]_vars

\* The same for a project of two declarations whose units refer to each
\* other by call and by type and may spell a declaration differently.
InitBuilder ==
    /\ declarations = <<>>
    /\ edges = {}
    /\ graph = [nodes |-> <<>>, edges |-> {}]
    /\ scc_components = <<>>
    /\ phase = "building"
    /\ project = [ids |-> {"f", "g"}, reasons |-> Reasons, spellings |-> TRUE,
                  hints |-> FALSE]
    /\ sightings = <<>>
    /\ readded = {}
    /\ expected = [declarations |-> <<>>, edges |-> {}, references |-> {}]
    /\ skipped = {}
    /\ earlier_components = None
    /\ units = <<>>
    /\ added = <<>>
    /\ PipelineIdle
    /\ ParallelIdle
    /\ DigestIdle

SpecBuilder == InitBuilder /\ [][NextGraph]_vars

\* The same for a project of two declarations whose units come with rule
\* hints.
InitHints ==
    /\ declarations = <<>>
    /\ edges = {}
    /\ graph = [nodes |-> <<>>, edges |-> {}]
    /\ scc_components = <<>>
    /\ phase = "building"
    /\ project = [ids |-> {"f", "g"}, reasons |-> {"call"},
                  spellings |-> FALSE, hints |-> TRUE]
    /\ sightings = <<>>
    /\ readded = {}
    /\ expected = [declarations |-> <<>>, edges |-> {}, references |-> {}]
    /\ skipped = {}
    /\ earlier_components = None
    /\ units = <<>>
    /\ added = <<>>
    /\ PipelineIdle
    /\ ParallelIdle
    /\ DigestIdle

SpecHints == InitHints /\ [][NextGraph]_vars

(***************************************************************************)
(* A caller of ProjectGraphBuilder that holds two units and adds them in   *)
(* any order, any of them more than once, before it builds the graph.      *)
(***************************************************************************)
\* ProjectGraphBuilder.add_translation_unit(data) on a builder
add_translation_unit(builder, data) ==
    [declarations |-> UpsertRecords(builder.declarations, data.records),
     edges |-> builder.edges \cup data.edges]

\* The builder after add_translation_unit for all_units[order[1]],
\* all_units[order[2]], ... on a new ProjectGraphBuilder.
RECURSIVE AddedInOrder(_, _)
AddedInOrder(all_units, order) ==
    IF order = <<>> THEN [declarations |-> <<>>, edges |-> {}]
    ELSE add_translation_unit(
             AddedInOrder(all_units, SubSeq(order, 1, Len(order) - 1)),
             all_units[order[Len(order)]])

\* One call of builder.add_translation_unit with a unit the caller holds.
AddUnit ==
    /\ phase = "building"
    /\ Len(added) < MaxAdditions
    /\ \E k \in DOMAIN units :
          LET builder == add_translation_unit(
                             [declarations |-> declarations, edges |-> edges],
                             units[k])
          IN  /\ declarations' = builder.declarations
              /\ edges' = builder.edges
              /\ added' = Append(added, k)
    /\ UNCHANGED <<graph, scc_components, phase, project, sightings, readded,
                   expected, skipped, earlier_components, units>>
    /\ UNCHANGED <<pipelineVars, workspaceVars, parallelVars, digestVars>>

InitOrder ==
    /\ declarations = <<>>
    /\ edges = {}
    /\ graph = [nodes |-> <<>>, edges |-> {}]
    /\ scc_components = <<>>
    /\ phase = "building"
    /\ project = [ids |-> {"f", "g"}, reasons |-> {"call"}, spellings |-> TRUE,
                  hints |-> FALSE]
    /\ sightings = <<>>
    /\ readded = {}
    /\ expected = [declarations |-> <<>>, edges |-> {}, references |-> {}]
    /\ skipped = {}
    /\ earlier_components = None
    /\ units \in [1..2 -> TranslationUnits(project)]
    /\ added = <<>>
    /\ PipelineIdle
    /\ ParallelIdle
    /\ DigestIdle

NextOrder ==
    \/ AddUnit
    \/ Build

\* add_translation_unit for two units in any order, then build().
SpecOrder == InitOrder /\ [][NextOrder]_vars

(***************************************************************************)
(* build_project_graph with max_workers > 1: the extraction of the units   *)
(* runs on the threads of a ThreadPoolExecutor, the caller's thread takes  *)
(* the results in the order of submission and merges them.                 *)
(***************************************************************************)
\* The threads of the pool (max_workers = 2) and the thread that called
\* build_project_graph.
Workers == {"worker-1", "worker-2"}
MainThread == "MainThread"

\* The compile commands in the order _read_compile_commands lists them.
commands == SetToSeq(UnitPaths)

\* A future just submitted; `finished` tells as which of the futures its
\* call returned (0 while it has not).
NoFuture ==
    [state |-> "queued", worker |-> "none", result |-> None, finished |-> 0]

\* The builder of build_project_graph with max_workers = 1 after the first
\* n commands, given what _process_command returns for each command: the
\* loop `for command in commands` calls it and add_translation_unit in turn.
RECURSIVE SequentialBuilder(_, _)
SequentialBuilder(returned, n) ==
    IF n = 0 THEN [declarations |-> <<>>, edges |-> {}]
    ELSE LET before == SequentialBuilder(returned, n - 1)
             result == returned[commands[n]]
         IN  IF result = None THEN before
             ELSE [declarations |->
                      UpsertRecords(before.declarations, result[1].records),
                   edges |-> before.edges \cup result[1].edges]

\* Merging whatever future is done, whoever else is merging.
DoneFutures ==
    {path \in DOMAIN futures : futures[path].state = "done"}

\* The futures whose result the loop `for future in futures` may take now:
\* the next one in the order of submission, once it is done and the loop
\* body of the future before it has ended.
NextFuture ==
    IF /\ merging = {}
       /\ future_pos \in DOMAIN commands
       /\ futures[commands[future_pos]].state = "done"
    THEN {commands[future_pos]}
    ELSE {}

\* The position of the loop and the phase after one future was dealt with.
FutureHandled ==
    /\ future_pos' = future_pos + 1
    /\ phase' = IF future_pos + 1 > Len(commands) THEN "merged" ELSE "waiting"

\* executor.submit for every command.
SubmitAll ==
    /\ phase = "parallel"
    /\ futures' = [path \in UnitPaths |-> NoFuture]
    /\ phase' = "waiting"
    /\ UNCHANGED <<future_pos, merging>>
    /\ UNCHANGED <<declarations, edges, graph, scc_components, project,
                   sightings, readded, expected, skipped, earlier_components,
                   units, added>>
    /\ UNCHANGED <<pipelineVars, workspaceVars, digestVars>>

\* A thread of the pool takes a queued call of _process_command.
StartWorker ==
    /\ \E w \in Workers, path \in DOMAIN futures :
          /\ futures[path].state = "queued"
          /\ \A other \in DOMAIN futures :
                ~(futures[other].state = "running" /\ futures[other].worker = w)
          /\ futures' = [futures EXCEPT ![path].state = "running",
                                        ![path].worker = w]
    /\ UNCHANGED <<future_pos, merging>>
    /\ UNCHANGED graphVars
    /\ UNCHANGED <<pipelineVars, workspaceVars, digestVars>>

\* _process_command returns on its thread; the future holds the result.
FinishWorker ==
    /\ \E path \in DOMAIN futures, data \in TranslationUnits(project),
          outcome \in ExtractionOutcomes :
          /\ futures[path].state = "running"
          /\ data.path = path
          /\ futures' =
                [futures EXCEPT
                    ![path].state = "done",
                    ![path].result = _process_command(outcome, data).result,
                    ![path].finished =
                        1 + Cardinality({other \in DOMAIN futures :
                                            futures[other].finished > 0})]
    /\ UNCHANGED <<future_pos, merging>>
    /\ UNCHANGED graphVars
    /\ UNCHANGED <<pipelineVars, workspaceVars, digestVars>>

\* future.result() in the caller's thread, and for a result that is not
\* None the entry into builder.add_translation_unit.
TakeResult ==
    /\ phase = "waiting"
    /\ \E path \in NextFuture :
          /\ futures' = [futures EXCEPT ![path].state = "taken"]
          /\ IF futures[path].result = None
             THEN /\ FutureHandled
                  /\ UNCHANGED merging
             ELSE /\ merging' = merging \cup {<<MainThread, path>>}
                  /\ UNCHANGED <<future_pos, phase>>
    /\ UNCHANGED <<declarations, edges, graph, scc_components, project,
                   sightings, readded, expected, skipped, earlier_components,
                   units, added>>
    /\ UNCHANGED <<pipelineVars, workspaceVars, digestVars>>

\* ProjectGraphBuilder.add_translation_unit for the result taken, up to
\* its return.
MergeResult ==
    /\ \E m \in merging :
          LET data == futures[m[2]].result[1]
          IN  /\ declarations' = UpsertRecords(declarations, data.records)
              /\ edges' = edges \cup data.edges
              /\ merging' = merging \ {m}
    /\ FutureHandled
    /\ UNCHANGED <<futures, graph, scc_components, project, sightings,
                   readded, expected, skipped, earlier_components,
                   units, added>>
    /\ UNCHANGED <<pipelineVars, workspaceVars, digestVars>>

InitParallel ==
    /\ declarations = <<>>
    /\ edges = {}
    /\ graph = [nodes |-> <<>>, edges |-> {}]
    /\ scc_components = <<>>
    /\ phase = "parallel"
    /\ project = [ids |-> {"f", "g"}, reasons |-> {"call"},
                  spellings |-> TRUE, hints |-> FALSE]
    /\ sightings = <<>>
    /\ readded = {}
    /\ expected = [declarations |-> <<>>, edges |-> {}, references |-> {}]
    /\ skipped = {}
    /\ earlier_components = None
    /\ units = <<>>
    /\ added = <<>>
    /\ PipelineIdle
    /\ ParallelIdle
    /\ DigestIdle

NextParallel ==
    \/ SubmitAll
    \/ StartWorker
    \/ FinishWorker
    \/ TakeResult
    \/ MergeResult
    \/ Build
    \/ Components

\* A run of build_project_graph(db_path, max_workers=2) followed by
\* components().
SpecParallel == InitParallel /\ [][NextParallel]_vars

(***************************************************************************)
(* IRENEPipeline._build_dependency_context: the digest of the summaries of *)
(* the components a component depends on, found by a breadth-first walk    *)
(* over component_dependencies.                                            *)
(***************************************************************************)
\* The names of the declarations of the components, by component index,
\* and a name that declarations of several components share.
OwnNames == <<"d1", "d2", "d3", "d4", "d5", "d6">>
SharedName == "s"

\* The summaries recorded for a translated component: one entry for its
\* own declaration and one for a declaration named like those of others.
RecordedSummaries(idx) ==
    <<[name |-> OwnNames[idx], kind |-> "function"],
      [name |-> SharedName, kind |-> "function"]>>

\* sorted(): the indices of the set in ascending order.
RECURSIVE sorted(_)
sorted(S) ==
    IF S = {} THEN <<>>
    ELSE LET least == CHOOSE x \in S : \A y \in S : x <= y
         IN  <<least>> \o sorted(S \ {least})

\* The lines of the digest.
HeaderLine == [text |-> "Known dependencies:", scc |-> 0, name |-> ""]
SccLine(idx) == [text |-> "SCC", scc |-> idx, name |-> ""]
EntryLine(name) == [text |-> "-", scc |-> 0, name |-> name]

\* The loop over the entries of one component: the lines and seen_decls
\* after it, given them before it.
RECURSIVE AddEntries(_, _)
AddEntries(entries, acc) ==
    IF entries = <<>> THEN acc
    ELSE LET name == Head(entries).name
         IN  IF name = "" \/ name \in acc.seen_decls
             THEN AddEntries(Tail(entries), acc)
             ELSE LET next == [lines |-> Append(acc.lines, EntryLine(name)),
                               seen_decls |-> acc.seen_decls \cup {name}]
                  IN  IF Cardinality(next.seen_decls) >= max_entries
                      THEN next
                      ELSE AddEntries(Tail(entries), next)

\* A walk that passes over a component only for its depth.
TooDeep(idx, depth) == depth > max_hops

\* The test that makes the walk pass over a queue entry.
SeenOrTooDeep(idx, depth) == idx \in seen_components \/ depth > max_hops

\* The start of _build_dependency_context: no upstream components, or the
\* queue of the direct ones at depth 1.
StartDigest ==
    /\ digest_pc = "called"
    /\ LET upstream == component_dependencies[component_index]
       IN  IF upstream = {}
           THEN /\ digest_pc' = "returned"
                /\ dependency_context' = <<>>
                /\ UNCHANGED <<queue, lines>>
           ELSE /\ digest_pc' = "walking"
                /\ queue' = [i \in DOMAIN sorted(upstream) |->
                                <<sorted(upstream)[i], 1>>]
                /\ lines' = <<HeaderLine>>
                /\ UNCHANGED dependency_context
    /\ UNCHANGED <<component_dependencies, component_index, max_hops,
                   max_entries, seen_components, seen_decls, visits>>
    /\ UNCHANGED <<max_iterations, workspace_given, components, workspace_file,
                   pc, component_pos, iteration, pending_patch, snapshot,
                   errors, compiled, workspace_view, results,
                   component_summaries, calls, attempt_log, observed>>
    /\ UNCHANGED <<graphVars, workspaceVars, parallelVars>>

\* One pass of the while loop: the head of the queue is passed over, or
\* its summaries are listed and its own upstream components are queued.
WalkStep ==
    /\ digest_pc = "walking"
    /\ queue # <<>>
    /\ Cardinality(seen_decls) < max_entries
    /\ LET idx == Head(queue)[1]
           depth == Head(queue)[2]
       IN  IF SeenOrTooDeep(idx, depth)
           THEN /\ queue' = Tail(queue)
                /\ UNCHANGED <<seen_components, seen_decls, lines, visits>>
           ELSE LET seen == seen_components \cup {idx}
                    entries == IF idx \in DOMAIN component_summaries
                               THEN component_summaries[idx] ELSE <<>>
                    listed == IF entries # <<>>
                              THEN AddEntries(entries,
                                       [lines |-> Append(lines, SccLine(idx)),
                                        seen_decls |-> seen_decls])
                              ELSE [lines |-> lines, seen_decls |-> seen_decls]
                    parents == sorted(component_dependencies[idx] \ seen)
                IN  /\ seen_components' = seen
                    /\ visits' = Append(visits, idx)
                    /\ lines' = listed.lines
                    /\ seen_decls' = listed.seen_decls
                    /\ queue' =
                          IF depth < max_hops
                          THEN Tail(queue) \o
                               [i \in DOMAIN parents |-> <<parents[i], depth + 1>>]
                          ELSE Tail(queue)
    /\ UNCHANGED <<component_dependencies, component_index, max_hops,
                   max_entries, dependency_context, digest_pc>>
    /\ UNCHANGED <<max_iterations, workspace_given, components, workspace_file,
                   pc, component_pos, iteration, pending_patch, snapshot,
                   errors, compiled, workspace_view, results,
                   component_summaries, calls, attempt_log, observed>>
    /\ UNCHANGED <<graphVars, workspaceVars, parallelVars>>

\* The end of the walk: the digest, or "" when nothing but the header line
\* was written.
ReturnDigest ==
    /\ digest_pc = "walking"
    /\ ~(queue # <<>> /\ Cardinality(seen_decls) < max_entries)
    /\ dependency_context' = IF Len(lines) = 1 THEN <<>> ELSE lines
    /\ digest_pc' = "returned"
    /\ UNCHANGED <<component_dependencies, component_index, max_hops,
                   max_entries, queue, seen_components, seen_decls, lines,
                   visits>>
    /\ UNCHANGED <<max_iterations, workspace_given, components, workspace_file,
                   pc, component_pos, iteration, pending_patch, snapshot,
                   errors, compiled, workspace_view, results,
                   component_summaries, calls, attempt_log, observed>>
    /\ UNCHANGED <<graphVars, workspaceVars, parallelVars>>

\* The arguments translate_project may pass for its last component: the
\* upstream components of a component come before it, and summaries are
\* recorded for the earlier components that were translated.
InitDigest ==
    /\ component_index = MaxDigestComponents
    /\ component_dependencies \in
          {d \in [1..MaxDigestComponents -> SUBSET (1..MaxDigestComponents)] :
              \A i \in DOMAIN d : \A j \in d[i] : j < i}
    /\ \E translated \in SUBSET (1..(MaxDigestComponents - 1)) :
          component_summaries = [idx \in translated |-> RecordedSummaries(idx)]
    /\ max_hops \in {1, DefaultMaxHops}
    /\ max_entries \in {1, 2, DefaultMaxEntries}
    /\ queue = <<>>
    /\ seen_components = {}
    /\ seen_decls = {}
    /\ lines = <<>>
    /\ visits = <<>>
    /\ dependency_context = <<>>
    /\ digest_pc = "called"
    /\ max_iterations = 0
    /\ workspace_given = FALSE
    /\ components = <<>>
    /\ workspace_file = NoFile
    /\ pc = "idle"
    /\ component_pos = 1
    /\ iteration = 0
    /\ pending_patch = <<>>
    /\ snapshot = <<>>
    /\ errors = <<>>
    /\ compiled = FALSE
    /\ workspace_view = <<>>
    /\ results = <<>>
    /\ calls = NoCalls
    /\ attempt_log = <<>>
    /\ observed = NothingObserved
    /\ WorkspaceIdle
    /\ GraphIdle
    /\ ParallelIdle

NextDigest ==
    \/ StartDigest
    \/ WalkStep
    \/ ReturnDigest

\* A call of _build_dependency_context.
SpecDigest == InitDigest /\ [][NextDigest]_vars

NextPipeline ==
    \/ TranslateProject
    \/ NextComponent
    \/ StartDigest
    \/ WalkStep
    \/ ReturnDigest
    \/ CallTranslate
    \/ InitialPatch
    \/ ApplyPatch
    \/ Compile
    \/ CorrectivePatch
    \/ Interrupt

\* A run of translate_project.
Spec == InitPipeline /\ [][NextPipeline]_vars

NextTranslate ==
    \/ NextPipeline
    \/ Translate

\* A run of translate_project, or a call of translate() on its own.
SpecTranslate == InitTranslate /\ [][NextTranslate]_vars

(***************************************************************************)
(* Properties of the dependency digest.                                    *)
(***************************************************************************)
\* The components within `hops` steps of the dependency relation from the
\* component, its direct upstream components being one step away.
RECURSIVE WithinHops(_, _)
WithinHops(direct, hops) ==
    IF hops = 0 THEN {}
    ELSE direct \cup WithinHops(
             UNION {component_dependencies[j] : j \in direct}, hops - 1)

Upstream == WithinHops(component_dependencies[component_index], max_hops)

\* The positions of the declaration entries in the digest, and the
\* component under whose line an entry stands.
EntryLines == {p \in DOMAIN lines : lines[p].text = "-"}

Owner(p) ==
    LET above == {q \in 1..p : lines[q].text = "SCC"}
    IN  lines[CHOOSE q \in above : \A r \in above : r <= q].scc

\* C30: the digest lists at most max_entries declaration entries, each of
\* them from the summaries of a component within max_hops steps of the
\* dependency relation (the direct dependencies being the first step); the
\* walk processes no component twice; and the digest returned is empty when
\* the component has no dependencies or none of the dependencies within
\* reach has a recorded summary.
C30_DigestIsBounded ==
    /\ Cardinality(EntryLines) <= max_entries
    /\ \A p \in EntryLines :
          /\ Owner(p) \in Upstream
          /\ Owner(p) \in DOMAIN component_summaries
          /\ \E e \in DOMAIN component_summaries[Owner(p)] :
                component_summaries[Owner(p)][e].name = lines[p].name
    /\ \A i, j \in DOMAIN visits : i # j => visits[i] # visits[j]
    /\ \A i \in DOMAIN visits : visits[i] \in Upstream
    /\ (/\ digest_pc = "returned"
        /\ \/ component_dependencies[component_index] = {}
           \/ \A j \in Upstream : j \notin DOMAIN component_summaries)
       => dependency_context = <<>>

C30_Witness ==
    /\ digest_pc = "returned"
    /\ max_hops = DefaultMaxHops
    /\ component_dependencies[MaxDigestComponents] = {2, 3}
    /\ component_dependencies[2] = {1}
    /\ component_dependencies[3] = {1}
    /\ visits = <<2, 3, 1>>
    /\ Cardinality(EntryLines) = 4
    /\ dependency_context # <<>>

(***************************************************************************)
(* Properties of the requests to the oracles during a run.                 *)
(***************************************************************************)
\* C32: the translator is called once per attempt: while a component is
\* being translated the calls made for it number one more than the loop
\* variable, and when translate() has returned they number the iterations
\* the result reports.
C32_OneOracleCallPerAttempt ==
    /\ pc \in {"apply", "compile", "refine"} => calls.oracle = iteration + 1
    /\ Finished => calls.oracle = LastCompilation.iterations

C32_Witness ==
    /\ Finished
    /\ max_iterations = 3
    /\ attempt_log = <<"apply failed", "compiled">>
    /\ calls.oracle = 2
    /\ LastCompilation.success

\* C33: the first request of a component carries no error text, the
\* request made after a failed attempt carries the error of that attempt
\* (the apply error or the compiler's diagnostic), and every request of
\* the component shows the translator the same workspace text.
C33_FeedbackIsLatestError ==
    /\ (pc = "apply" /\ attempt_log = <<>>) => observed.feedback = <<>>
    /\ (pc = "apply" /\ attempt_log # <<>>)
       => /\ Last(attempt_log) \in {"apply failed", "compile failed"}
          /\ observed.feedback = AttemptError(Last(attempt_log))
    /\ calls.oracle > 0 => observed.view = observed.first_view

C33_Witness ==
    /\ pc = "apply"
    /\ attempt_log = <<"apply failed", "compile failed">>
    /\ observed.feedback = <<"E0308">>
    /\ observed.first_view # <<>>
    /\ calls.oracle = 3

\* C34: a compile is given the whole workspace text as the patch just
\* applied left it, never the patch alone, and when the compiler accepts
\* it the workspace text stays the text that was compiled.
C34_CompilerSeesWholeWorkspace ==
    [][(pc = "compile" /\ calls'.compiler = calls.compiler + 1)
       => /\ observed'.compiler_input = Some(current_text(workspace_file))
          /\ observed'.compiler_input # Some(pending_patch)
          /\ Last(attempt_log') = "compiled"
             => /\ Some(current_text(workspace_file')) =
                      observed'.compiler_input
                /\ observed'.compiled_text = observed'.compiler_input]_vars

C34_Witness ==
    /\ pc = "refine"
    /\ Last(attempt_log) = "compile failed"
    /\ observed.start_text = <<"x">>
    /\ observed.compiler_input = Some(<<"x", "LF", "y">>)
    /\ current_text(workspace_file) = <<"x">>

\* C35: the summaries of every component translate() returned for are
\* recorded, whether it compiled or not, and the digest built for a later
\* component that depends on it names the component and its declarations.
C35_FailedComponentsAreSummarised ==
    /\ \A r \in DOMAIN results :
          /\ results[r].scc_index \in DOMAIN component_summaries
          /\ component_summaries[results[r].scc_index] = results[r].summaries
    /\ digest_pc = "returned"
       => \A r \in DOMAIN results :
             results[r].scc_index \in component_dependencies[component_index]
             => /\ SccLine(results[r].scc_index) \in Range(dependency_context)
                /\ \A e \in DOMAIN results[r].summaries :
                      EntryLine(results[r].summaries[e].name)
                          \in Range(dependency_context)

C35_Witness ==
    /\ pc = "translate"
    /\ digest_pc = "returned"
    /\ component_index = 2
    /\ component_dependencies[2] = {1}
    /\ Len(results) = 1
    /\ ~results[1].compilation.success
    /\ results[1].summaries # <<>>
    /\ Len(dependency_context) = 3

\* C36: every CompilationResult the refinement loop returns, IRENE's and
\* GUARDIAN's alike, reports between 1 and max_iterations iterations and
\* has errors = None exactly when success is true.
C36_ResultIsWellFormed ==
    /\ \A r \in DOMAIN results :
          /\ results[r].compilation.iterations \in 1..max_iterations
          /\ results[r].compilation.errors = None
                <=> results[r].compilation.success
    /\ pc = "start"
       => \A runs \in [1..max_iterations -> CompilerRuns] :
             LET returned == guardian_compile_with_refinement(max_iterations,
                                                              runs)
             IN  ~returned.raised
                 => /\ returned.result[1].iterations \in 1..max_iterations
                    /\ returned.result[1].errors = None
                          <=> returned.result[1].success

C36_Witness ==
    /\ pc = "returned"
    /\ max_iterations = 3
    /\ Len(results) = 2
    /\ results[1].compilation = [success |-> TRUE, iterations |-> 3,
                                 errors |-> None]
    /\ results[2].compilation.iterations = 3
    /\ results[2].compilation.errors = Some(TimeoutDiagnostic)

RECURSIVE FirstOccurrences(_)
FirstOccurrences(order) ==
    IF order = <<>> THEN <<>>
    ELSE LET front == FirstOccurrences(SubSeq(order, 1, Len(order) - 1))
             k == order[Len(order)]
         IN  IF k \in Range(front) THEN front ELSE Append(front, k)

\* Every order in which the units of `chosen` can be added once each.
Orders(chosen) ==
    {order \in [1..Cardinality(chosen) -> chosen] : Range(order) = chosen}

\* The record of decl_id in the first unit added that contains it.
FirstRecord(decl_id) ==
    LET Holds(k) == \E i \in DOMAIN units[k].records :
                        units[k].records[i].decl_id = decl_id
        first == CHOOSE p \in DOMAIN added :
                     /\ Holds(added[p])
                     /\ \A q \in 1..(p - 1) : ~Holds(added[q])
        records == units[added[first]].records
    IN  records[CHOOSE i \in DOMAIN records : records[i].decl_id = decl_id]

\* The names a stored record is known under.
NamesOf(record) == {record.name} \cup record.aliases

\* The ids of the store and the edges, raw and of the built graph, are
\* those of every order of the units added, and adding a unit again after
\* it was added leaves the builder as it was.
OrderFreeParts ==
    /\ \A order \in Orders(Range(added)) :
          LET builder == AddedInOrder(units, order)
          IN  /\ DOMAIN declarations = DOMAIN builder.declarations
              /\ edges = builder.edges
              /\ phase = "built"
                 => \A G \in BuiltGraphs(builder.declarations, builder.edges) :
                       /\ DOMAIN graph.nodes = DOMAIN G.nodes
                       /\ graph.edges = G.edges
    /\ LET builder == AddedInOrder(units, FirstOccurrences(added))
       IN  /\ declarations = builder.declarations
           /\ edges = builder.edges

\* The canonical fields of every stored id are those of the first unit
\* added that contains it.
CanonicalFieldsAreTheFirst ==
    \A id \in DOMAIN declarations :
        /\ declarations[id].name = FirstRecord(id).name
        /\ declarations[id].kind = FirstRecord(id).kind
        /\ declarations[id].path = FirstRecord(id).path
        /\ declarations[id].code = FirstRecord(id).code

\* C37 as stated: ids and edges do not depend on the order in which the
\* units are added, adding a unit twice changes nothing, and of a shared id
\* only the canonical fields (name, kind, path, source text) depend on the
\* order, being those of the first unit added that contains it: its
\* aliases, extra locations and hints are the same in every order.
C37_OnlyCanonicalFieldsFollowOrder ==
    /\ OrderFreeParts
    /\ CanonicalFieldsAreTheFirst
    /\ \A order \in Orders(Range(added)) :
          LET builder == AddedInOrder(units, order)
          IN  \A id \in DOMAIN declarations :
                 /\ declarations[id].aliases = builder.declarations[id].aliases
                 /\ declarations[id].extra_locations
                       = builder.declarations[id].extra_locations
                 /\ declarations[id].rule_hints
                       = builder.declarations[id].rule_hints

\* C37, amended: ids and edges do not depend on the order in which the
\* units are added and adding a unit twice changes nothing; of a shared id
\* the canonical fields (name, kind, path, source text) are those of the
\* first unit added that contains it and its aliases are the other names
\* the units give it, so both depend on the order, while its extra
\* locations and the names it is known under, taken together, do not.
C37_CanonicalFieldsAndAliasesFollowOrder ==
    /\ OrderFreeParts
    /\ CanonicalFieldsAreTheFirst
    /\ \A id \in DOMAIN declarations :
          declarations[id].aliases
            = {units[k].records[i].name :
                  <<k, i>> \in {x \in Range(added) \X {1, 2} :
                                   /\ x[2] \in DOMAIN units[x[1]].records
                                   /\ units[x[1]].records[x[2]].decl_id = id}}
              \ {declarations[id].name}
    /\ \A order \in Orders(Range(added)) :
          LET builder == AddedInOrder(units, order)
          IN  \A id \in DOMAIN declarations :
                 /\ declarations[id].extra_locations
                       = builder.declarations[id].extra_locations
                 /\ NamesOf(declarations[id])
                       = NamesOf(builder.declarations[id])

C37_Witness ==
    /\ phase = "built"
    /\ added = <<2, 1, 2>>
    /\ units[1].path # units[2].path
    /\ units[1].edges # units[2].edges
    /\ units[1].edges # {}
    /\ units[2].edges # {}
    /\ DOMAIN declarations = {"f", "g"}
    /\ declarations["f"].name = "f_t"
    /\ declarations["f"].path = units[2].path
    /\ declarations["f"].aliases = {"f"}
    /\ AddedInOrder(units, <<1, 2>>).declarations["f"].name = "f"
    /\ AddedInOrder(units, <<1, 2>>).declarations["f"].aliases = {"f_t"}
    /\ graph.edges = units[1].edges \cup units[2].edges

(***************************************************************************)
(* Properties of the parallel extraction.                                  *)
(***************************************************************************)
\* C25: in every interleaving of the worker threads, only the thread that
\* called build_project_graph is ever inside add_translation_unit, and it
\* is there for one unit at a time, a unit whose result it has taken.
C25_MergesAreSerialized ==
    /\ Cardinality(merging) <= 1
    /\ \A m \in merging :
          /\ m[1] = MainThread
          /\ m[1] \notin Workers
          /\ futures[m[2]].state = "taken"

C25_Witness ==
    /\ merging = {<<MainThread, commands[1]>>}
    /\ futures[commands[2]].state = "done"
    /\ futures[commands[2]].result # None
    /\ futures[commands[2]].worker # futures[commands[1]].worker

\* C38: build_project_graph with max_workers > 1 ends with the store (ids,
\* canonical fields, aliases, extra locations, hints) and the edges that
\* max_workers = 1 makes of the same results of _process_command, whatever
\* order the workers finish in, and builds a graph of that store.
C38_ParallelEqualsSequential ==
    (phase \in {"merged", "built", "decomposed"} /\ futures # <<>>)
    => LET returned == [path \in DOMAIN futures |-> futures[path].result]
           builder == SequentialBuilder(returned, Len(commands))
       IN  /\ declarations = builder.declarations
           /\ edges = builder.edges
           /\ phase # "merged"
              => graph \in BuiltGraphs(builder.declarations, builder.edges)

C38_Witness ==
    /\ phase = "built"
    /\ futures # <<>>
    /\ futures[commands[2]].finished = 1
    /\ futures[commands[1]].finished = 2
    /\ futures[commands[1]].worker # futures[commands[2]].worker
    /\ futures[commands[1]].result # None
    /\ futures[commands[2]].result # None
    /\ "f" \in DOMAIN declarations
    /\ declarations["f"].path = commands[1]
    /\ declarations["f"].aliases # {}
    /\ Cardinality(declarations["f"].extra_locations) = 2
    /\ edges # {}

(***************************************************************************)
(* Properties of the decomposition.                                        *)
(***************************************************************************)
\* The nodes reachable from the nodes of `seen` along edges of G.
RECURSIVE ReachableFrom(_, _)
ReachableFrom(G, seen) ==
    LET next == seen \cup {e[2] : e \in {x \in G.edges : x[1] \in seen}}
    IN  IF next = seen THEN seen ELSE ReachableFrom(G, next)

MutuallyReachable(G, a, b) ==
    b \in ReachableFrom(G, {a}) /\ a \in ReachableFrom(G, {b})

OnCycle(G, a) == a \in ReachableFrom(G, Successors(G, a))

HasEdge(G, a, b) == \E r \in Reasons : <<a, b, r>> \in G.edges

SameComponent(a, b) ==
    \E i \in DOMAIN scc_components :
        {a, b} \subseteq Range(scc_components[i].declaration_ids)

\* C9: two declarations are in the same component exactly when each is
\* reachable from the other; a mutually recursive pair that shares its
\* cycles with no third declaration is one component of size 2, and a
\* declaration on no cycle (so without a self-loop) is a component of
\* size 1.
C9_ComponentsAreMutualReachability ==
    phase = "decomposed"
    => LET ids == DOMAIN graph.nodes
       IN  /\ \A a, b \in ids :
                 SameComponent(a, b) <=> MutuallyReachable(graph, a, b)
           /\ \A a, b \in ids :
                 (/\ a # b
                  /\ HasEdge(graph, a, b)
                  /\ HasEdge(graph, b, a)
                  /\ \A c \in ids \ {a, b} : ~MutuallyReachable(graph, a, c))
                 => Cardinality({i \in DOMAIN scc_components :
                       /\ Range(scc_components[i].declaration_ids) = {a, b}
                       /\ Len(scc_components[i].declaration_ids) = 2}) = 1
           /\ \A a \in ids :
                 ~OnCycle(graph, a)
                 => \E i \in DOMAIN scc_components :
                       scc_components[i].declaration_ids = <<a>>

C9_Witness ==
    /\ phase = "decomposed"
    /\ graph.edges = {<<"f", "g", "call">>, <<"g", "f", "call">>,
                      <<"g", "h", "call">>}
    /\ Len(scc_components) = 2
    /\ \E i \in DOMAIN scc_components :
          Len(scc_components[i].declaration_ids) = 2

\* How often a declaration id occurs in the declaration_ids of the
\* components.
Occurrences(id) ==
    Cardinality({p \in (DOMAIN scc_components) \X (1..Cardinality(DeclIds)) :
                    /\ p[2] \in DOMAIN scc_components[p[1]].declaration_ids
                    /\ scc_components[p[1]].declaration_ids[p[2]] = id})

\* C10: the components returned by components() partition the stored
\* declaration ids: each id occurs in exactly one component, once, and no
\* component is empty.
C10_ComponentsPartitionStore ==
    phase = "decomposed"
    => /\ \A id \in DOMAIN declarations : Occurrences(id) = 1
       /\ \A i \in DOMAIN scc_components :
             scc_components[i].declaration_ids # <<>>

C10_Witness ==
    /\ phase = "decomposed"
    /\ DOMAIN declarations = DeclIds
    /\ edges = {<<"f", "g", "call">>, <<"g", "f", "call">>}
    /\ Len(scc_components) = 2

\* The components of the returned list that hold the declaration id.
ComponentsOf(id) ==
    {i \in DOMAIN scc_components :
        id \in Range(scc_components[i].declaration_ids)}

\* C11: for every edge a -> b of the project graph whose endpoints lie in
\* different components, the component of a (the referencing one) stands
\* before the component of b in the returned list and has the smaller
\* index.
C11_CallerComponentFirst ==
    phase = "decomposed"
    => \A e \in graph.edges :
          \A i \in ComponentsOf(e[1]), j \in ComponentsOf(e[2]) :
              i # j => /\ i < j
                       /\ scc_components[i].index < scc_components[j].index

C11_Witness ==
    /\ phase = "decomposed"
    /\ graph.edges = {<<"h", "g", "call">>, <<"g", "f", "call">>}
    /\ Len(scc_components) = 3
    /\ scc_components[1].declaration_ids = <<"h">>
    /\ scc_components[3].declaration_ids = <<"f">>

(***************************************************************************)
(* Properties of the declaration store and of the built graph.             *)
(***************************************************************************)
\* The declaration ids two units have each yielded a record for.
SeenTwice == {id \in DOMAIN sightings : Len(sightings[id]) = 2}

\* C12 as stated: for two records with the same decl_id coming from two
\* units, the store holds one record whose aliases is the union of both
\* names when the names differ and whose extra_locations contains the
\* locations of both sightings.
C12_AliasesAreBothNames ==
    phase = "merged"
    => \A id \in SeenTwice :
          LET d1 == sightings[id][1]
              d2 == sightings[id][2]
          IN  /\ id \in DOMAIN declarations
              /\ d1.name # d2.name
                    => declarations[id].aliases = {d1.name, d2.name}
              /\ {d1.location, d2.location}
                    \subseteq declarations[id].extra_locations

\* C12 as amended: for two records with the same decl_id coming from two
\* units, the store holds one record that keeps the name of the first
\* record, whose aliases holds the name of the second record when the
\* names differ and is empty otherwise, and whose extra_locations is the
\* locations of both sightings.
C12_AliasIsTheOtherName ==
    phase = "merged"
    => \A id \in SeenTwice :
          LET d1 == sightings[id][1]
              d2 == sightings[id][2]
          IN  /\ id \in DOMAIN declarations
              /\ declarations[id].name = d1.name
              /\ declarations[id].aliases =
                    IF d1.name # d2.name THEN {d2.name} ELSE {}
              /\ declarations[id].extra_locations =
                    {d1.location, d2.location}

C12_Witness ==
    /\ phase = "merged"
    /\ "f" \in SeenTwice
    /\ sightings["f"][1].name = "f_t"
    /\ sightings["f"][2].name = "f"
    /\ sightings["f"][1].location # sightings["f"][2].location

\* C13: however often a raw edge (a, b, reason) was added, and whichever
\* reasons the raw edges of a pair (a, b) carry, the built graph has exactly
\* one edge a -> b for a pair with a raw edge, carrying one of the reasons
\* added for the pair, and no edge for a pair without one.
C13_OneEdgePerPair ==
    phase \in {"built", "decomposed"}
    => \A a, b \in project.ids :
          LET raw == {e \in edges : e[1] = a /\ e[2] = b}
              built == {e \in graph.edges : e[1] = a /\ e[2] = b}
          IN  /\ raw # {} => (Cardinality(built) = 1 /\ built \subseteq raw)
              /\ raw = {} => built = {}

C13_Witness ==
    /\ phase = "built"
    /\ <<"g", "g", "call">> \in readded
    /\ <<"f", "g", "call">> \in edges
    /\ <<"f", "g", "type">> \in edges
    /\ <<"f", "g", "type">> \in graph.edges

\* C17: whichever units fail to be extracted (file missing, read error,
\* parse error), build_project_graph does not raise, and the store, the
\* edges and the built graph are those of the other units alone.
C17_FailedUnitsContributeNothing ==
    /\ phase # "raised"
    /\ declarations = expected.declarations
    /\ edges = expected.edges
    /\ phase \in {"built", "decomposed"}
          => graph \in BuiltGraphs(expected.declarations, expected.edges)

C17_Witness ==
    /\ phase = "built"
    /\ skipped = {"a.c"}
    /\ DOMAIN graph.nodes = {"f", "g"}
    /\ graph.edges # {}

\* C16: a further call of components() on the same project graph returns
\* the same components, each seen as a set of ids, and leaves the graph
\* and the declaration store as the call before found them.
C16_DecompositionIsIdempotent ==
    earlier_components # None
    => /\ ComponentSets(scc_components) = earlier_components[1].sets
       /\ graph = earlier_components[1].graph
       /\ declarations = earlier_components[1].declarations

C16_Witness ==
    /\ phase = "decomposed"
    /\ earlier_components # None
    /\ earlier_components[1].sets = {{"f", "g"}, {"h"}}
    /\ scc_components[1].declaration_ids = <<"g", "f">>

\* C26: the components returned by components() carry the indices 1, 2,
\* ..., n in list order, n being the number of components returned.
C26_IndicesAreSequential ==
    phase = "decomposed"
    => \A i \in DOMAIN scc_components : scc_components[i].index = i

C26_Witness ==
    /\ phase = "decomposed"
    /\ Len(scc_components) = 3
    /\ scc_components[3].index = 3
    /\ graph.edges # {}

\* The declaration ids the step adds a further record for.
AddedAgain ==
    {id \in DOMAIN sightings :
        Len(sightings'[id]) = Len(sightings[id]) + 1}

\* C27: a step never removes a record from the store and never changes the
\* name, kind, path, line, column or code of a stored record; when it adds
\* a further record for the id, the name of that record joins the aliases
\* exactly when it differs from the stored name, and otherwise the aliases
\* stay as they are.
C27_MergeKeepsCanonicalRecord ==
    [][\A id \in DOMAIN declarations :
          /\ id \in DOMAIN declarations'
          /\ declarations'[id].name = declarations[id].name
          /\ declarations'[id].kind = declarations[id].kind
          /\ declarations'[id].path = declarations[id].path
          /\ declarations'[id].line = declarations[id].line
          /\ declarations'[id].column = declarations[id].column
          /\ declarations'[id].code = declarations[id].code
          /\ declarations'[id].aliases =
                IF id \in AddedAgain
                THEN LET later == Last(sightings'[id]).name
                     IN  IF later # declarations[id].name
                         THEN declarations[id].aliases \cup {later}
                         ELSE declarations[id].aliases
                ELSE declarations[id].aliases]_vars

C27_Witness ==
    /\ phase = "merged"
    /\ {"f", "g"} \subseteq SeenTwice
    /\ sightings["f"][2].name # declarations["f"].name
    /\ declarations["f"].aliases = {sightings["f"][2].name}
    /\ declarations["g"].aliases = {}
    /\ sightings["f"][2].location[2] # declarations["f"].line
    /\ sightings["f"][2].code # declarations["f"].code

\* Two hints with the same (category, snippet, suggestion, explanation).
SameTuple(h1, h2) ==
    /\ h1.category = h2.category
    /\ h1.code_snippet = h2.code_snippet
    /\ h1.suggested_rust = h2.suggested_rust
    /\ h1.explanation = h2.explanation

\* The hints of every record added for the id, in the order they came.
RECURSIVE HintsSeen(_)
HintsSeen(seen) ==
    IF seen = <<>> THEN <<>>
    ELSE Head(seen).rule_hints \o HintsSeen(Tail(seen))

\* C28: the hint list of a stored record holds every tuple seen for its id,
\* holds no tuple twice, and lists the tuples in the order in which they
\* were first seen.
C28_HintsAreMergedWithoutDuplicates ==
    \A id \in DOMAIN declarations :
        LET hints == declarations[id].rule_hints
            seen == HintsSeen(sightings[id])
            FirstSeen(h) ==
                CHOOSE k \in DOMAIN seen :
                    /\ SameTuple(seen[k], h)
                    /\ \A m \in 1..(k - 1) : ~SameTuple(seen[m], h)
        IN  /\ \A k \in DOMAIN seen :
                  \E i \in DOMAIN hints : SameTuple(hints[i], seen[k])
            /\ \A i \in DOMAIN hints :
                  \E k \in DOMAIN seen : SameTuple(hints[i], seen[k])
            /\ \A i, j \in DOMAIN hints :
                  i < j => /\ ~SameTuple(hints[i], hints[j])
                           /\ FirstSeen(hints[i]) < FirstSeen(hints[j])

C28_Witness ==
    /\ phase = "merged"
    /\ "f" \in SeenTwice
    /\ sightings["f"][1].rule_hints = <<PrintfHint>>
    /\ sightings["f"][2].rule_hints = <<ScanfHint, PrintfHint>>
    /\ declarations["f"].rule_hints = <<PrintfHint, ScanfHint>>

\* C29 as stated: every edge (a, a, reason) handed to the builder is an
\* edge a -> a of the built graph, and every reference of a declaration to
\* itself found in a unit, by call or by type, has produced such an edge.
C29_SelfReferencesBecomeSelfEdges ==
    phase \in {"built", "decomposed"}
    => /\ \A e \in edges : e[1] = e[2] => HasEdge(graph, e[1], e[1])
       /\ \A r \in expected.references :
             r[1] = r[2] => HasEdge(graph, r[1], r[1])

\* C29 as amended: every edge (a, a, reason) handed to the builder is an
\* edge a -> a of the built graph, and every call of a declaration to
\* itself found in a unit has produced such an edge; a type reference of a
\* declaration to itself produces no edge, so the built graph has a
\* self-edge only where a unit has such a call.
C29_SelfCallsBecomeSelfEdges ==
    phase \in {"built", "decomposed"}
    => /\ \A e \in edges : e[1] = e[2] => HasEdge(graph, e[1], e[1])
       /\ \A r \in expected.references :
             (r[1] = r[2] /\ r[3] = "call") => HasEdge(graph, r[1], r[1])
       /\ \A a \in DOMAIN graph.nodes :
             HasEdge(graph, a, a) => <<a, a, "call">> \in expected.references

C29_Witness ==
    /\ phase = "built"
    /\ <<"f", "f", "call">> \in expected.references
    /\ <<"g", "g", "type">> \in expected.references
    /\ HasEdge(graph, "f", "f")
    /\ ~HasEdge(graph, "g", "g")

\* The components the digest of a component may consult: its upstream
\* components, theirs, and so on.
RECURSIVE Consulted(_, _)
Consulted(deps, frontier) ==
    LET wider == frontier \cup UNION {deps[j] : j \in frontier}
    IN  IF wider = frontier THEN frontier ELSE Consulted(deps, wider)

\* C31: every index in the dependency set _map_component_dependencies
\* computes for a component is smaller than the component's own index, and
\* every component consulted for its digest, directly or through others,
\* stands before it in the list translate_project walks through.
C31_DependenciesComeFirst ==
    phase = "decomposed"
    => LET deps == _map_component_dependencies(graph, scc_components)
       IN  \A p \in DOMAIN scc_components :
              LET c == scc_components[p].index
              IN  /\ \A d \in deps[c] : d # c /\ d < c
                  /\ \A d \in Consulted(deps, deps[c]) :
                        \E q \in 1..(p - 1) : scc_components[q].index = d

C31_Witness ==
    /\ phase = "decomposed"
    /\ Len(scc_components) = 3
    /\ _map_component_dependencies(graph, scc_components)[3] = {2}
    /\ _map_component_dependencies(graph, scc_components)[2] = {1}
    /\ Consulted(_map_component_dependencies(graph, scc_components), {2})
          = {1, 2}

\* C40: the aliases of a stored record never contain the record's own
\* canonical name (the records of the units come with no aliases).
C40_AliasesExcludeCanonicalName ==
    \A id \in DOMAIN declarations :
        declarations[id].name \notin declarations[id].aliases

C40_Witness ==
    /\ "f" \in DOMAIN sightings
    /\ Len(sightings["f"]) = 2
    /\ sightings["f"][1].name = "f_t"
    /\ sightings["f"][2].name = "f"
    /\ declarations["f"].aliases = {"f"}
    /\ "g" \in DOMAIN sightings
    /\ Len(sightings["g"]) = 2
    /\ declarations["g"].aliases = {}

(***************************************************************************)
(* A caller of RustWorkspace: any sequence of its operations on one file.  *)
(***************************************************************************)
\* The data a caller writes and the code and labels it appends.
WrittenTexts == {<<"x", "LF">>, <<"x", "CR">>}
AppendedCode == {<<" ">>, <<"y">>, <<"a", "CR", "b">>}
Labels == {None, Some(<<"l">>)}

\* The operation just called, as the caller saw it.
Called(op, data, label, returned) ==
    last_op' = [op |-> op, data |-> data, label |-> label,
                returned |-> returned, before |-> workspace_file,
                repeated |-> /\ last_op.op = op
                             /\ last_op.data = data
                             /\ last_op.label = label]

\* What no operation of the workspace touches.
callerIdleVars ==
    <<max_iterations, workspace_given, components, pc, component_pos,
      iteration, pending_patch, errors, compiled, workspace_view, results,
      component_summaries, calls, attempt_log, observed, graphVars,
      parallelVars, digestVars>>

\* The caller drops the snapshot it held.
Forget ==
    /\ snapshot' = <<>>
    /\ rollback' = NoRollback

\* RustWorkspace(path, reset=do_reset) on a path that may hold a file
Construct ==
    /\ pc = "workspace"
    /\ last_op.op = "none"
    /\ \E do_reset \in BOOLEAN :
          /\ workspace_file' = RustWorkspace(workspace_file, do_reset)
          /\ Called("__init__", <<>>, None, do_reset)
    /\ UNCHANGED <<snapshot, rollback>>
    /\ UNCHANGED callerIdleVars

CallReset ==
    /\ pc = "workspace"
    /\ last_op.op # "none"
    /\ workspace_file' = reset
    /\ Called("reset", <<>>, None, <<>>)
    /\ Forget
    /\ UNCHANGED callerIdleVars

\* write_text(data) with fresh data or with the snapshot the caller holds
CallWriteText ==
    /\ pc = "workspace"
    /\ last_op.op # "none"
    /\ \E data \in WrittenTexts \cup
                    (IF rollback.stage = "apply failed" THEN {snapshot}
                     ELSE {}) :
          /\ workspace_file' = write_text(data)
          /\ Called("write_text", data, None, <<>>)
          /\ IF rollback.stage = "apply failed" /\ data = snapshot
             THEN /\ rollback' = [rollback EXCEPT !.stage = "restored"]
                  /\ UNCHANGED snapshot
             ELSE Forget
    /\ UNCHANGED callerIdleVars

CallSnapshot ==
    /\ pc = "workspace"
    /\ last_op.op # "none"
    /\ snapshot' = take_snapshot(workspace_file)
    /\ rollback' = [stage |-> "snapshot taken",
                    text |-> current_text(workspace_file)]
    /\ Called("snapshot", <<>>, None, take_snapshot(workspace_file))
    /\ UNCHANGED workspace_file
    /\ UNCHANGED callerIdleVars

CallApplyPatch ==
    /\ pc = "workspace"
    /\ last_op.op # "none"
    /\ \E patch_text \in PatchDiffs, tool \in PatchToolRuns :
          LET r == apply_patch(workspace_file, patch_text, tool)
          IN  /\ workspace_file' = r.file
              /\ Called("apply_patch", patch_text, None,
                        [applied |-> r.applied, error |-> r.error,
                         tool_used |-> r.tool_used])
              /\ IF rollback.stage = "snapshot taken" /\ ~r.applied
                 THEN /\ rollback' = [rollback EXCEPT !.stage = "apply failed"]
                      /\ UNCHANGED snapshot
                 ELSE Forget
    /\ UNCHANGED callerIdleVars

CallAppendBlock ==
    /\ pc = "workspace"
    /\ last_op.op # "none"
    /\ Len(workspace_file) <= MaxFileLen
    /\ \E label \in Labels, code \in AppendedCode :
          /\ workspace_file' = append_block(workspace_file, label, code)
          /\ Called("append_block", code, label, <<>>)
    /\ Forget
    /\ UNCHANGED callerIdleVars

InitWorkspace ==
    /\ workspace_file \in {NoFile, <<>>, <<"x", "LF">>, <<"x", "CR", "LF">>}
    /\ snapshot = <<>>
    /\ WorkspaceIdle
    /\ pc = "workspace"
    /\ max_iterations = 0
    /\ workspace_given = TRUE
    /\ components = <<>>
    /\ component_pos = 1
    /\ iteration = 0
    /\ pending_patch = <<>>
    /\ errors = <<>>
    /\ compiled = FALSE
    /\ workspace_view = <<>>
    /\ results = <<>>
    /\ component_summaries = <<>>
    /\ calls = NoCalls
    /\ attempt_log = <<>>
    /\ observed = NothingObserved
    /\ GraphIdle
    /\ ParallelIdle
    /\ DigestIdle

NextWorkspace ==
    \/ Construct
    \/ CallReset
    \/ CallWriteText
    \/ CallSnapshot
    \/ CallApplyPatch
    \/ CallAppendBlock

\* Any use of one RustWorkspace.
SpecWorkspace == InitWorkspace /\ [][NextWorkspace]_vars

(***************************************************************************)
(* Properties of RustWorkspace.                                            *)
(***************************************************************************)
\* C14: after write_text(s), whatever was called before it, current_text()
\* returns exactly s.
C14_WriteTextRoundTrip ==
    last_op.op = "write_text"
    => current_text(workspace_file) = last_op.data

\* C15: after s = snapshot(), an apply_patch that fails and write_text(s),
\* current_text() is exactly the text the workspace held at the snapshot,
\* whatever the failing patch tool left in the file.
C15_RollbackRestoresText ==
    rollback.stage = "restored"
    => current_text(workspace_file) = rollback.text

C15_Witness ==
    /\ rollback.stage = "restored"
    /\ rollback.text = <<"x", "LF">>
    /\ last_op.before \in {NoFile, <<"x", "LF", "y">>}

\* C18: apply_patch with an empty or whitespace-only patch text returns
\* success = false without running the patch tool and leaves the file as
\* it was.
C18_BlankPatchRejected ==
    (last_op.op = "apply_patch" /\ Strip(last_op.data) = <<>>)
    => /\ ~last_op.returned.applied
       /\ ~last_op.returned.tool_used
       /\ workspace_file = last_op.before

C18_Witness ==
    /\ last_op.op = "apply_patch"
    /\ last_op.data = <<" ">>
    /\ ~last_op.returned.applied
    /\ current_text(workspace_file) # <<>>

\* The content append_block is to leave when the trimmed code is new.
AppendedText(content, label, snippet) ==
    content
        \o (IF content # <<>> THEN <<"LF", "LF">> ELSE <<>>)
        \o (IF label # None THEN <<"// ">> \o label[1] \o <<"LF">> ELSE <<>>)
        \o snippet \o <<"LF">>

\* C19: append_block changes nothing when the trimmed code already occurs
\* in the workspace text, so a second call with the same arguments changes
\* nothing; otherwise the file becomes its old content, a blank-line
\* separator when that is not empty, the label comment when a label is
\* given, and the trimmed code.
C19_AppendBlockIdempotent ==
    last_op.op = "append_block"
    => LET snippet == Strip(last_op.data)
           text == current_text(last_op.before)
           content == IF last_op.before = NoFile THEN <<>>
                      ELSE last_op.before
       IN  /\ Occurs(snippet, text) => workspace_file = last_op.before
           /\ last_op.repeated => workspace_file = last_op.before
           /\ (snippet # <<>> /\ ~Occurs(snippet, text))
                 => workspace_file =
                       AppendedText(content, last_op.label, snippet)

\* C20: after reset() the workspace text is empty, a second reset() in a
\* row changes nothing, and current_text() is empty when the file does
\* not exist and after a construction that found no file or was asked to
\* reset.
C20_ResetEmptiesWorkspace ==
    /\ last_op.op = "reset"
          => /\ current_text(workspace_file) = <<>>
             /\ last_op.repeated => workspace_file = last_op.before
    /\ workspace_file = NoFile => current_text(workspace_file) = <<>>
    /\ (/\ last_op.op = "__init__"
        /\ (last_op.returned \/ last_op.before = NoFile))
          => current_text(workspace_file) = <<>>

C20_Witness ==
    /\ last_op.op = "reset"
    /\ last_op.before = <<"x", "CR", "LF">>
    /\ workspace_file = <<>>

====
